---- MODULE Spec2Model ----
(***************************************************************************)
(* Streaming chat orchestration of prompt_studio: the generator of         *)
(* app/routers/chat.py (streaming V2 loop and non-streaming legacy loop),  *)
(* the refactored generator of app/routers/chat/router.py, the older       *)
(* generator of app/main.py, the ToolExecutor envelope of                  *)
(* services/tool_executor.py and the SearchTracker of chat/search.py.      *)
(*                                                                         *)
(* Text is abstracted to short tokens.  A JSON arguments string is a       *)
(* sequence of tokens ("{", "}", one token per key/value pair, "1" for a   *)
(* scalar document); ParseJson decides what json.loads decides.            *)
(***************************************************************************)
EXTENDS Integers, Sequences, FiniteSets, TLC

\* ------------------------------------------------------------------ bounds
\* upstream stream items (deltas, chunks) consumed from a generation stream
MaxChunks == 3
\* upstream stream items consumed from a finalization fallback stream
MaxFallbackChunks == 2
\* largest max_tool_calls enumerated (the source accepts 1..20)
MaxLimit == 3
\* invocations of ToolExecutor.execute made on one executor in ExecSpec
MaxExecutions == 2
\* largest unique_count a SearchTracker is driven to in TrackerSpec
MaxTrackerCount == 7
\* calls the clamp of one SearchTracker rejects in TrackerSpec
MaxRejections == 3

\* calls checked by get_or_clamp whose results are not stored yet
MaxPending == 2

\* times the event loop changes the running request in ConcSpec
MaxSwitches == 2

\* ------------------------------------------------------- program constants
search_clamp_limit == 6

NUDGE == "Please use the tool results above to answer my original question."
NO_CONTENT == "No additional content generated."
STOPPED == "Stopped after maximum tool calls. No further content generated by the model."

\* ------------------------------------------------------------ text helpers
\* str.lower() on a sequence of characters
LowerChar(c) == IF c = "A" THEN "a" ELSE IF c = "B" THEN "b" ELSE c

Lower(s) == [i \in DOMAIN s |-> LowerChar(s[i])]

RECURSIVE LStrip(_)
LStrip(s) == IF s # <<>> /\ Head(s) = " " THEN LStrip(Tail(s)) ELSE s

RECURSIVE RStrip(_)
RStrip(s) ==
    IF s # <<>> /\ s[Len(s)] = " " THEN RStrip(SubSeq(s, 1, Len(s) - 1)) ELSE s

\* str.strip()
Strip(s) == RStrip(LStrip(s))

\* ------------------------------------------------------------ JSON helpers
\* key/value tokens of an arguments document and the pair each stands for;
\* a string value is its sequence of characters, <<"#int">> is a number
\* the queries "q1", "q2", ...: one more than the clamp admits
NumberedQueries == {"q" \o ToString(i) : i \in 1..(search_clamp_limit + 1)}

KvTokens == {"qa", "qA", "qb", "q_", "qn", "h", "x"} \cup NumberedQueries

KvKey(t) == IF t = "h" THEN "time_hint" ELSE IF t = "x" THEN "expression" ELSE "query"

KvValue(t) ==
    CASE t = "qa" -> <<"a">>
      [] t = "qA" -> <<"A", " ">>
      [] t = "qb" -> <<"b">>
      [] t = "q_" -> <<" ">>
      [] t = "qn" -> <<"#int">>
      [] t = "h"  -> <<"d", "a", "y">>
      [] t \in NumberedQueries -> <<t>>
      [] OTHER    -> <<"e", "x", "p", "r">>

\* the object a sequence of key/value tokens denotes; a repeated key keeps
\* its last value, as json.loads does
RECURSIVE ObjectOf(_)
ObjectOf(kvs) ==
    IF kvs = <<>> THEN [k \in {} |-> <<>>]
    ELSE LET rest == ObjectOf(SubSeq(kvs, 1, Len(kvs) - 1))
             t    == kvs[Len(kvs)]
         IN  [k \in DOMAIN rest \cup {KvKey(t)} |->
                 IF k = KvKey(t) THEN KvValue(t) ELSE rest[k]]

\* json.loads: ok = FALSE when it raises JSONDecodeError; is_dict = FALSE for
\* a document that is not an object
ParseJson(s) ==
    IF s = <<"1">> THEN [ok |-> TRUE, is_dict |-> FALSE, d |-> [k \in {} |-> <<>>]]
    ELSE IF /\ Len(s) >= 2
            /\ s[1] = "{"
            /\ s[Len(s)] = "}"
            /\ \A i \in 2..(Len(s) - 1) : s[i] \in KvTokens
         THEN [ok |-> TRUE, is_dict |-> TRUE, d |-> ObjectOf(SubSeq(s, 2, Len(s) - 1))]
         ELSE [ok |-> FALSE, is_dict |-> FALSE, d |-> [k \in {} |-> <<>>]]

\* parse_tool_arguments / the try-json.loads-except of the generators:
\* {} on a decode error
ParseToolArguments(s) ==
    IF ParseJson(s).ok THEN ParseJson(s)
    ELSE [ok |-> TRUE, is_dict |-> TRUE, d |-> [k \in {} |-> <<>>]]

\* ------------------------------------------------- time-constraint parser
\* A prompt text is described by what the parser's regular expressions find
\* in it: span is "none", a named span, or "last_n" for the pattern
\* (last|past|in the last) N unit; keywords says whether one of the words
\* that imply a search ("news", "latest", "last ", ...) occurs.
NoText == [span |-> "none", n |-> 0, unit |-> "day", keywords |-> FALSE]

Last7Days == [span |-> "last_n", n |-> 7, unit |-> "days", keywords |-> TRUE]

\* the clock: weekday() of now, day of the month, length of the month before
DefaultNow == [weekday |-> 3, day |-> 15, prev_month_days |-> 30]

get_time_hint_from_days(days) ==
    IF days <= 1 THEN "day"
    ELSE IF days <= 7 THEN "week"
    ELSE IF days <= 30 THEN "month"
    ELSE "year"

UnitDays(unit) ==
    IF unit \in {"day", "days"} THEN 1
    ELSE IF unit \in {"week", "weeks"} THEN 7
    ELSE IF unit \in {"month", "months"} THEN 30
    ELSE 365

\* the None result
NoHint == [some |-> FALSE, time_hint |-> "", after |-> 0, days_ago |-> 0]

\* some = FALSE is the None result; after is the number of days before now
\* of the date that strftime renders
parse_time_constraints(text, now) ==
    CASE text.span = "today" ->
            [some |-> TRUE, time_hint |-> "day", after |-> 0, days_ago |-> 1]
      [] text.span = "yesterday" ->
            [some |-> TRUE, time_hint |-> "day", after |-> 1, days_ago |-> 1]
      [] text.span = "this_week" ->
            [some |-> TRUE, time_hint |-> "week", after |-> now.weekday, days_ago |-> 7]
      [] text.span = "last_week" ->
            [some |-> TRUE, time_hint |-> "week", after |-> now.weekday + 7, days_ago |-> 7]
      [] text.span = "this_month" ->
            [some |-> TRUE, time_hint |-> "month", after |-> now.day - 1, days_ago |-> 30]
      [] text.span = "last_month" ->
            [some |-> TRUE, time_hint |-> "month",
             after |-> now.day - 1 + now.prev_month_days, days_ago |-> 30]
      [] text.span = "last_n" ->
            [some |-> TRUE,
             time_hint |-> get_time_hint_from_days(text.n * UnitDays(text.unit)),
             after |-> text.n * UnitDays(text.unit),
             days_ago |-> text.n * UnitDays(text.unit)]
      [] OTHER -> NoHint

\* the characters of a hint word and of a rendered date
HintChars(h) ==
    CASE h = "day"   -> <<"d", "a", "y">>
      [] h = "week"  -> <<"w", "e", "e", "k">>
      [] h = "month" -> <<"m", "o", "n", "t", "h">>
      [] h = "year"  -> <<"y", "e", "a", "r">>
      [] OTHER       -> <<>>

DateChars(days_before_now) == <<"D", ToString(days_before_now)>>

\* the dictionary the enrichment loop reads with hint.get(k)
HintDict(hint) ==
    [k \in {"time_hint", "after"} |->
        IF k = "time_hint" THEN HintChars(hint.time_hint) ELSE DateChars(hint.after)]

\* chat.py 442-452 / 606-618: add time_hint, after, before where the model
\* gave none and the parser has a value; a non-object argument makes the
\* membership test or the assignment raise, which the except swallows
EnrichSearchArgs(func_args, hint) ==
    IF ~hint.some \/ ~func_args.is_dict THEN func_args
    ELSE LET hd    == HintDict(hint)
             added == {k \in {"time_hint", "after", "before"} :
                          /\ k \notin DOMAIN func_args.d
                          /\ k \in DOMAIN hd
                          /\ hd[k] # <<>>}
         IN  [func_args EXCEPT !.d =
                 [k \in DOMAIN func_args.d \cup added |->
                     IF k \in DOMAIN func_args.d THEN func_args.d[k] ELSE hd[k]]]

\* ---------------------------------------------------- search cache key
IsStr(v) == v # <<"#int">>

\* args.get(k) or ""
GetOrEmpty(d, k) == IF k \in DOMAIN d THEN d[k] ELSE <<>>

\* chat.py 460-464 and create_search_cache_key: raises (AttributeError) when
\* the arguments are not an object or the query is not a string
SearchKeyRaises(func_args) ==
    \/ ~func_args.is_dict
    \/ ~IsStr(GetOrEmpty(func_args.d, "query"))

create_search_cache_key(func_args) ==
    [q      |-> Lower(Strip(GetOrEmpty(func_args.d, "query"))),
     after  |-> Strip(GetOrEmpty(func_args.d, "after")),
     before |-> Strip(GetOrEmpty(func_args.d, "before")),
     hint   |-> Lower(Strip(GetOrEmpty(func_args.d, "time_hint")))]

\* ------------------------------------------------------------ ToolExecutor
\* payloads: "data" is what a tool returned (n numbers the backend call that
\* produced it), "error_dict" a returned dict with an error entry, "complex"
\* a calculate result holding a complex number (json.dumps rejects it)
NoPayload == [kind |-> "none", n |-> 0]

RegisteredTools == {"search_web", "get_current_time", "calculate"}

\* what a tool does once its body runs, chosen by the environment
ToolOutcomes(tool_name) ==
    CASE tool_name = "search_web" -> {"ok", "error_payload", "timeout"}
      [] tool_name = "calculate"  -> {"ok", "error_payload", "complex"}
      [] tool_name = "get_current_time" -> {"ok", "error_payload"}
      [] OTHER                    -> {"ok"}

\* self.tools[tool_name](**arguments) binds: a mapping, every required
\* parameter present, no unexpected keyword
BindsArguments(tool_name, arguments) ==
    /\ arguments.is_dict
    /\ CASE tool_name = "search_web" ->
               /\ "query" \in DOMAIN arguments.d
               /\ DOMAIN arguments.d \subseteq
                      {"query", "num_results", "time_hint", "after", "before"}
         [] tool_name = "calculate" -> DOMAIN arguments.d = {"expression"}
         [] OTHER -> DOMAIN arguments.d \subseteq {"timezone"}

\* the tool raises something other than TypeError before its own try block:
\* query.strip() / expression.strip() on a number
ToolRaises(tool_name, arguments) ==
    \/ tool_name = "search_web" /\ ~IsStr(arguments.d["query"])
    \/ tool_name = "calculate" /\ ~IsStr(arguments.d["expression"])

\* _search_web returns {"error": "Query cannot be empty"} without a request
BlankQuery(tool_name, arguments) ==
    tool_name = "search_web" /\ Strip(arguments.d["query"]) = <<>>

\* the call reaches the tool's backend (the search HTTP API)
ContactsBackend(tool_name, arguments) ==
    /\ tool_name \in RegisteredTools
    /\ BindsArguments(tool_name, arguments)
    /\ ~ToolRaises(tool_name, arguments)
    /\ ~BlankQuery(tool_name, arguments)

ErrorPayloadAsSuccess(n) == [success |-> TRUE, error |-> "", result |-> [kind |-> "error_dict", n |-> n]]

\* tool_executor.py 128-133: a returned dict with an error entry
ErrorPayload(n) ==
    [success |-> FALSE, error |-> "tool error", result |-> [kind |-> "error_dict", n |-> n]]

\* ToolExecutor.execute; outcome is used only when the backend is contacted,
\* n is the number of this backend call
execute(tool_name, arguments, outcome, n) ==
    IF tool_name \notin RegisteredTools
    THEN [success |-> FALSE, error |-> "Unknown tool", result |-> NoPayload]
    ELSE IF ~BindsArguments(tool_name, arguments)
    THEN [success |-> FALSE, error |-> "Invalid arguments", result |-> NoPayload]
    ELSE IF ToolRaises(tool_name, arguments)
    THEN [success |-> FALSE, error |-> "failed", result |-> NoPayload]
    ELSE IF BlankQuery(tool_name, arguments)
    THEN ErrorPayload(0)
    ELSE CASE outcome = "timeout" ->
                 [success |-> FALSE, error |-> "timed out", result |-> NoPayload]
           [] outcome = "error_payload" -> ErrorPayload(n)
           [] outcome = "complex" ->
                 [success |-> TRUE, error |-> "", result |-> [kind |-> "complex", n |-> n]]
           [] OTHER ->
                 [success |-> TRUE, error |-> "", result |-> [kind |-> "data", n |-> n]]

\* json.dumps of a tool result raises TypeError on a complex number
JsonSerializable(result) == result.result.kind # "complex"

\* ------------------------------------------------------- downstream frames
NoResult == [success |-> FALSE, error |-> "", result |-> NoPayload]

\* format_sse_event of a dictionary; type = "" is a frame without a type key
Frame(type, content) ==
    [type |-> type, content |-> content, id |-> "", name |-> "",
     calls |-> <<>>, result |-> NoResult, code |-> ""]

stream_content_event(content) == Frame("content", content)

stream_reasoning_event(content) == Frame("reasoning", content)

stream_error_event(error) == Frame("error", error)

stream_debug_event(message) == Frame("debug", message)

stream_done_event == Frame("done", "")

stream_warning_event(message, code) == [Frame("warning", message) EXCEPT !.code = code]

stream_tool_calls_event(calls) == [Frame("tool_calls", "") EXCEPT !.calls = calls]

stream_tool_executing_event(tool_id, name) ==
    [Frame("tool_executing", "") EXCEPT !.id = tool_id, !.name = name]

stream_tool_result_event(tool_id, name, result) ==
    [Frame("tool_result", "") EXCEPT !.id = tool_id, !.name = name, !.result = result]

\* ---------------------------------------------------------------- messages
TextContent(text) == [kind |-> "text", text |-> text, payload |-> NoPayload]

Message(role, text) ==
    [role |-> role, content |-> TextContent(text), tool_calls |-> <<>>, tool_call_id |-> ""]

\* build_initial_messages / chat.py 202-208
build_initial_messages(system, prompt) ==
    (IF system # "" THEN <<Message("system", system)>> ELSE <<>>)
    \o <<Message("user", IF prompt # "" THEN prompt ELSE "Hello")>>

\* build_assistant_tool_message / chat.py 380, 423-432
build_assistant_tool_message(calls) ==
    [role |-> "assistant", content |-> TextContent(""),
     tool_calls |-> calls, tool_call_id |-> ""]

\* json.dumps(result.get("result", {})) on success,
\* json.dumps({"error": result.get("error", ...)}) otherwise
ToolContent(result) ==
    IF result.success
    THEN [kind |-> "json_result", text |-> "", payload |-> result.result]
    ELSE [kind |-> "json_error", text |-> result.error, payload |-> NoPayload]

\* append_tool_result / chat.py 486-491, 649-666
append_tool_result(msgs, tool_call_id, result) ==
    Append(msgs, [role |-> "tool", content |-> ToolContent(result),
                  tool_calls |-> <<>>, tool_call_id |-> tool_call_id])

\* append_finalization_prompt / chat.py 494, 668-673
append_finalization_prompt(msgs) == Append(msgs, Message("user", NUDGE))

\* --------------------------------------------------------- provider policy
RECURSIVE Before(_, _)
\* s.split(sep)[0]
Before(s, sep) ==
    IF s = <<>> \/ Head(s) = sep THEN <<>> ELSE <<Head(s)>> \o Before(Tail(s), sep)

RECURSIVE Without(_, _)
\* s.replace(c, "")
Without(s, c) ==
    IF s = <<>> THEN <<>>
    ELSE (IF Head(s) = c THEN <<>> ELSE <<Head(s)>>) \o Without(Tail(s), c)

\* the provider prefix with its dashes kept
ProviderWithDashes(model_id) == Before(Before(model_id, "/"), ":")

\* _provider_id_from_model / get_provider_id
get_provider_id(model_id) == Without(Before(Before(model_id, "/"), ":"), "-")

XAI == <<"x", "a", "i">>

ANTHROPIC == <<"a", "n", "t", "h", "r", "o", "p", "i", "c">>

\* chat.py 322-340: the prompt implies a search
ImpliesNeedsTools(r) ==
    /\ "search_web" \in r.tool_names
    /\ (r.prompt.text.keywords \/ parse_time_constraints(r.prompt.text, DefaultNow).some)

\* chat.py 342-354: the client's tool_choice as sent upstream
SanitizedToolChoice(r) ==
    IF r.tool_choice # "" /\ r.tool_choice \notin {"auto", "none"}
    THEN IF r.tool_choice \in r.tool_names
         THEN "function:" \o r.tool_choice
         ELSE "auto"
    ELSE IF r.tool_choice # "none" THEN "auto" ELSE "none"

\* chat.py 359-370 / main.py 355-366 (which has no provider test): the
\* first turn forces search_web
ForcesSearchFirstTurn(r, it) ==
    /\ it = 1
    /\ ImpliesNeedsTools(r)
    /\ "search_web" \in r.tool_names
    /\ SanitizedToolChoice(r) = "auto"
    /\ (r.impl = "main" \/ get_provider_id(r.model) # XAI)

ChatToolChoice(r, it) ==
    IF ForcesSearchFirstTurn(r, it) THEN "function:search_web" ELSE SanitizedToolChoice(r)

\* should_force_tools_first_turn after the parameters of turn it were built
ForcedAfter(r, it, forced) ==
    \/ forced
    \/ r.tool_choice # "" /\ r.tool_choice \notin {"auto", "none"}
          /\ r.tool_choice \in r.tool_names
    \/ ForcesSearchFirstTurn(r, it)

\* providers.py get_tool_choice_override ("" stands for None)
get_tool_choice_override(tool_choice, provider, tool_names) ==
    IF provider = XAI /\ tool_choice \notin {"auto", "none", ""} THEN "auto"
    ELSE IF tool_choice # "" /\ tool_choice \notin {"auto", "none", "required"}
    THEN IF tool_choice \in tool_names THEN "function:" \o tool_choice ELSE "auto"
    ELSE IF tool_choice = "none" THEN "none"
    ELSE IF tool_choice = "required" THEN "required"
    ELSE "auto"

\* chat.py 373-375 / apply_provider_constraints: "" is an absent field
ParallelToolCalls(model_id) ==
    IF get_provider_id(model_id) \in {ANTHROPIC, XAI} THEN "false" ELSE ""

\* chat.py 272-284 / parameters.py 50-86 / main.py 292-303: the
\* response_format field of params; "" is an absent field. main.py has no
\* provider test.
ResponseFormat(r) ==
    IF r.response_format = "" THEN ""
    ELSE IF r.impl # "main" /\ get_provider_id(r.model) = XAI THEN ""
    ELSE IF r.response_format \in {"json", "json_object", "jsonobject"}
    THEN "json_object"
    ELSE ""

\* an optional integer: None or an absent field, and the integer n
NoInt == [given |-> FALSE, n |-> 0]

SomeInt(n) == [given |-> TRUE, n |-> n]

\* the integer as the client sent it
Unclamped(n) == n

\* max(1, min(5, int(top_logprobs)))
ClampTopLogprobs(n) == IF n < 1 THEN 1 ELSE IF n > 5 THEN 5 ELSE n

\* chat.py 293-301 / main.py 313-323: the top_logprobs and logprobs fields
\* of params ("none" is None, "absent" an absent field); router.py reads
\* neither parameter
TopLogprobs(r) ==
    IF r.impl = "router" \/ ~r.top_logprobs.given THEN NoInt
    ELSE SomeInt(ClampTopLogprobs(r.top_logprobs.n))

Logprobs(r) ==
    IF r.impl = "router" THEN "absent"
    ELSE IF r.top_logprobs.given THEN "true"
    ELSE IF r.logprobs = "none" THEN "absent"
    ELSE r.logprobs

\* ------------------------------------------------------------ input sets
Texts == {"Hel", "lo"}

\* text chunks of a finalization fallback stream
FallbackTexts == {"fallback"}

Prompts ==
    {[system |-> "", prompt |-> "", text |-> NoText],
     [system |-> "sys", prompt |-> "news of the last 7 days", text |-> Last7Days]}

Models == {<<"o", "/", "m">>}

\* one item of the upstream event stream as stream_events yields it
UpstreamEvent(type, content) ==
    [type |-> type, content |-> content, index |-> 0, id |-> "", name |-> "",
     arguments |-> <<>>]

ToolCallDelta(index, id, name, arguments) ==
    [type |-> "tool_call_delta", content |-> "", index |-> index, id |-> id,
     name |-> name, arguments |-> arguments]

\* tool-call deltas offered by upstream: a call split over two deltas, a
\* call complete in one delta without an id, a second index, an unknown
\* tool with a scalar document
Deltas ==
    {ToolCallDelta(0, "c1", "search_web", <<"{", "qa">>),
     ToolCallDelta(0, "", "", <<"}">>),
     ToolCallDelta(0, "", "search_web", <<"{", "qA", "}">>),
     ToolCallDelta(1, "c2", "calculate", <<"{", "x", "}">>),
     ToolCallDelta(1, "", "", <<"qb">>),
     ToolCallDelta(0, "c1", "read_url", <<"1">>)}

\* events of a finalization fallback stream read with stream_events
FallbackEvents ==
    {UpstreamEvent("reasoning", "r")}
    \cup {UpstreamEvent("content_delta", t) : t \in FallbackTexts}

StreamEvents ==
    {UpstreamEvent("reasoning", "r")}
    \cup {UpstreamEvent("content_delta", t) : t \in Texts}
    \cup Deltas

\* lines of a streamed response body as stream_completion reads them: a
\* chunk with a content delta, a chunk whose delta holds no content or an
\* empty one, a line that is no data line (a comment), and a data line
\* that does not parse as a chunk
BodyLines ==
    {[kind |-> "delta", text |-> t] : t \in Texts \cup {""}}
    \cup {[kind |-> "comment", text |-> ": keep-alive"],
          [kind |-> "malformed", text |-> "{oops"]}

\* every chunk with a delta yields its content, empty or not
YieldEveryDelta(line) == IF line.kind = "delta" THEN <<line.text>> ELSE <<>>

\* openrouter.py 127-146: what stream_completion yields for one line
stream_completion(line) ==
    CASE line.kind = "comment"   -> <<>>
      [] line.kind = "malformed" -> <<line.text>>
      [] OTHER -> IF line.text # "" THEN <<line.text>> ELSE <<>>

\* how an upstream stream stops: the [DONE] line, the end of the body, or a
\* non-2xx status / transport error
StreamEnds == {"done", "end", "raise"}

\* ------------------------------------------------------------------ state
VARIABLES
    req,                \* the request's parameters and environment
    pc,                 \* position of the generator
    events,             \* frames written downstream, in order
    messages,           \* the conversation
    iteration,
    sent_any_content,
    should_force_tools_first_turn,
    tool_builders,      \* index -> {id, name, arguments}
    completed_call,
    func_args,          \* parsed (and enriched) arguments of the call under way
    pending_calls,      \* legacy: tool calls of the message still to execute
    search_cache,
    unique_search_count,
    clamp_warning_sent,
    yielded_events,     \* router.py: frames collected by stream_until_tool_call
    content_sent,       \* router.py: content_sent of the current turn
    client,             \* OpenRouterService._client: "none", "open", "closed"
    upstream_log,       \* requests sent to the gateway, in order
    executor_log,       \* ToolExecutor.execute invocations, in order, each
                        \* with what the tool did and the envelope returned
    backend_calls,      \* tool calls that reached the tool's backend
    contacted,          \* external collaborators contacted so far
    chunks,             \* items consumed from the upstream stream being read
    tracker_returns,    \* SearchTracker: should_warn of each call the clamp rejected
    received,           \* body lines read by stream_completion on the path without tools
    scheduler,          \* which of two concurrent requests runs, and the switches made
    suspended,          \* the generator frame of the request that does not run
    hint,               \* what parse_time_constraints returned when called on its own
    parsed,             \* what stream_events yielded when run on its own
    returned,           \* what the tracker's get_or_clamp last returned, and for which arguments
    cleared             \* arguments get_or_clamp returned (None, False) for, not passed to cache_result since

vars ==
    <<req, pc, events, messages, iteration, sent_any_content,
      should_force_tools_first_turn, tool_builders, completed_call, func_args,
      pending_calls, search_cache, unique_search_count, clamp_warning_sent,
      yielded_events, content_sent, client, upstream_log, executor_log,
      backend_calls, contacted, chunks, tracker_returns, received, scheduler,
      suspended,
      hint,
      parsed,
      returned,
      cleared>>

NoCall == [id |-> "", name |-> "", arguments |-> <<>>]

\* no second request
NoFrame == [pc |-> "none"]

NoArgs == [ok |-> TRUE, is_dict |-> TRUE, d |-> [k \in {} |-> <<>>]]

EmptyMap == [k \in {} |-> NoResult]

\* no get_or_clamp call was made yet
NoReturn == [call |-> "none", args |-> NoArgs, some |-> FALSE,
             result |-> NoResult, should_warn |-> FALSE]

\* an invocation of ToolExecutor.execute for the call with this id; did is
\* "pending" until it returns, then what the tool's body did ("not_run" when
\* the executor answered without running it to a result)
Invocation(call_id, tool_name, arguments) ==
    [id |-> call_id, name |-> tool_name, arguments |-> arguments,
     did |-> "pending", result |-> NoResult]

Returned(log, did, result) ==
    [log EXCEPT ![Len(log)] = [@ EXCEPT !.did = did, !.result = result]]

ChatRequests ==
    [impl : {"chat"}, tool_loop_v2 : BOOLEAN, api_key : BOOLEAN,
     tools : {"none", "array", "not_list", "bad_json"},
     tool_names : {{"search_web", "calculate"}},
     max_tool_calls : 1..MaxLimit, tool_choice : {"auto", "search_web"},
     model : Models, prompt : Prompts,
     response_format : {""}, top_logprobs : {NoInt}, logprobs : {"none"}]

\* router.py always offers the search_web schema and reads no tools parameter
RouterRequests ==
    [impl : {"router"}, tool_loop_v2 : {FALSE}, api_key : BOOLEAN,
     tools : {"none"}, tool_names : {{"search_web"}},
     max_tool_calls : 1..MaxLimit, tool_choice : {"auto", "search_web"},
     model : Models, prompt : Prompts,
     response_format : {""}, top_logprobs : {NoInt}, logprobs : {"none"}]

Init ==
    /\ req \in ChatRequests \cup RouterRequests
    /\ pc = "init"
    /\ events = <<>>
    /\ messages = <<>>
    /\ iteration = 0
    /\ sent_any_content = FALSE
    /\ should_force_tools_first_turn = FALSE
    /\ tool_builders = [i \in {} |-> NoCall]
    /\ completed_call = NoCall
    /\ func_args = NoArgs
    /\ pending_calls = <<>>
    /\ search_cache = EmptyMap
    /\ unique_search_count = 0
    /\ clamp_warning_sent = FALSE
    /\ yielded_events = <<>>
    /\ content_sent = FALSE
    /\ client = "none"
    /\ upstream_log = <<>>
    /\ executor_log = <<>>
    /\ backend_calls = 0
    /\ contacted = {}
    /\ chunks = 0
    /\ tracker_returns = <<>>
    /\ received = <<>>
    /\ scheduler = [running |-> 1, switches |-> 0]
    /\ suspended = NoFrame
    /\ hint = NoHint
    /\ parsed = <<>>
    /\ returned = NoReturn
    /\ cleared = {}

\* ---------------------------------------------------------------- helpers
\* payload sent by OpenRouterService: the conversation as it is at the call
UpstreamRequest(kind, phase, msgs, tool_choice, parallel, has_tools) ==
    [kind |-> kind, phase |-> phase, messages |-> msgs,
     tool_choice |-> tool_choice, parallel_tool_calls |-> parallel,
     has_tools |-> has_tools, response_format |-> ResponseFormat(req),
     logprobs |-> Logprobs(req), top_logprobs |-> TopLogprobs(req)]

\* a close that leaves the connection pool as it is
LeftOpen(c) == c

\* OpenRouterService.close in the finally clause
Closed(c) == IF c = "open" THEN "closed" ELSE c

HasTools == req.impl = "router" \/ req.tools = "array"

UsesStreamingLoop == req.impl = "router" \/ req.tool_loop_v2

IterationWarning(n) == "Reached maximum tool call iterations (" \o ToString(n) \o ")"

ClampError ==
    [success |-> FALSE,
     error |-> "Search trimmed by clamp (" \o ToString(search_clamp_limit) \o ")",
     result |-> NoPayload]

\* chat.py 458-482: what the dedupe/clamp block does with a call
DedupeDecision(enabled, func_name, args, cache, count) ==
    IF ~(enabled /\ func_name = "search_web") THEN "execute"
    ELSE IF SearchKeyRaises(args) THEN "execute"
    ELSE IF create_search_cache_key(args) \in DOMAIN cache THEN "cached"
    ELSE IF count >= search_clamp_limit THEN "clamp"
    ELSE "execute_and_cache"

\* a call taken as complete as soon as its name is known
NameKnown(b) == b.name # ""

\* chat.py 399-408: the builder holds a complete call
BuilderComplete(b) ==
    /\ b.name # ""
    /\ b.arguments # <<>>
    /\ ParseJson(b.arguments).ok

\* an aggregation that keeps one argument buffer for all indices
UpdateEveryBuilder(builders, ev) ==
    LET idx == ev.index
    IN  [i \in DOMAIN builders \cup {idx} |->
            IF i \in DOMAIN builders
            THEN [builders[i] EXCEPT !.arguments = @ \o ev.arguments,
                                    !.name = IF i = idx /\ ev.name # "" THEN ev.name ELSE @]
            ELSE [id |-> ev.id, name |-> ev.name, arguments |-> ev.arguments]]

\* chat.py 389-397 / router.py 95-109
UpdateBuilder(builders, ev) ==
    LET idx == ev.index
        b0  == IF idx \in DOMAIN builders THEN builders[idx]
               ELSE [id |-> ev.id, name |-> "", arguments |-> <<>>]
        b1  == [b0 EXCEPT !.id = IF ev.id # "" /\ b0.id = "" THEN ev.id ELSE @,
                          !.name = IF ev.name # "" THEN ev.name ELSE @,
                          !.arguments = @ \o ev.arguments]
    IN  [i \in DOMAIN builders \cup {idx} |-> IF i = idx THEN b1 ELSE builders[i]]

\* chat.py 402: call_<idx>_<iteration>; router.py 114: call_<idx>
CallId(b, idx, it) ==
    IF b.id # "" THEN b.id
    ELSE IF req.impl = "chat"
         THEN "call_" \o ToString(idx) \o "_" \o ToString(it)
         ELSE "call_" \o ToString(idx)

\* ---------------------------------------------------------------- actions
\* chat.py 180-231 / router.py 264-301: key check, tools parsing, messages
Start ==
    /\ pc = "init"
    /\ IF ~req.api_key
       THEN /\ events' =
                   IF req.impl = "main"
                   THEN <<Frame("", "Set OPENROUTER_API_KEY to enable streaming.")>>
                   ELSE <<stream_warning_event("Set OPENROUTER_API_KEY to enable streaming.", ""),
                          stream_done_event>>
            /\ pc' = "terminal"
            /\ UNCHANGED <<messages, contacted, upstream_log, client>>
       ELSE IF req.impl \in {"chat", "main"} /\ req.tools \in {"not_list", "bad_json"}
       THEN /\ events' = <<Frame("", IF req.tools = "not_list"
                                     THEN "Tools must be a JSON array"
                                     ELSE "Invalid tools JSON")>>
            /\ pc' = "terminal"
            /\ messages' = build_initial_messages(req.prompt.system, req.prompt.prompt)
            /\ contacted' = {"model_store"}
            /\ UNCHANGED <<upstream_log, client>>
       ELSE LET msgs == build_initial_messages(req.prompt.system, req.prompt.prompt)
            IN  /\ messages' = msgs
                /\ contacted' = {"model_store"} \cup (IF HasTools THEN {} ELSE {"gateway"})
                /\ events' = events
                /\ IF HasTools
                   THEN /\ pc' = "loop_head"
                        /\ UNCHANGED <<upstream_log, client>>
                   ELSE /\ pc' = "plain_stream"
                        /\ client' = "open"
                        /\ upstream_log' = Append(upstream_log,
                               UpstreamRequest("stream_completion", "plain", msgs, "", "", FALSE))
    /\ UNCHANGED <<req, iteration, sent_any_content, should_force_tools_first_turn,
                   tool_builders, completed_call, func_args, pending_calls,
                   search_cache, unique_search_count, clamp_warning_sent,
                   yielded_events, content_sent, executor_log, backend_calls, chunks>>
    /\ UNCHANGED <<tracker_returns, received, scheduler, suspended, hint, parsed, returned, cleared>>

\* the exception handler and finally clause of generate (chat.py 761-764,
\* router.py 318-321) after the frames evs were written
Fail(evs, error) ==
    /\ events' = Append(evs, stream_error_event(error))
    /\ client' = Closed(client)
    /\ pc' = "terminal"

\* a loop without its bound
LoopForever(it, limit) == TRUE

\* chat.py 317 / router.py 177 / main.py 339: while iteration < limit
LoopContinues(it, limit) == it < limit

\* chat.py 317-383 / router.py 177-195: loop test, parameters of the turn,
\* generation request
LoopHead ==
    /\ pc = "loop_head"
    /\ IF LoopContinues(iteration, req.max_tool_calls)
       THEN /\ iteration' = iteration + 1
            /\ should_force_tools_first_turn' =
                   IF req.impl \in {"chat", "main"}
                   THEN ForcedAfter(req, iteration + 1, should_force_tools_first_turn)
                   ELSE should_force_tools_first_turn
            /\ upstream_log' = Append(upstream_log,
                   UpstreamRequest(
                       IF UsesStreamingLoop THEN "stream_events" ELSE "completion",
                       "generation", messages,
                       IF req.impl \in {"chat", "main"}
                       THEN ChatToolChoice(req, iteration + 1)
                       ELSE get_tool_choice_override(req.tool_choice,
                                get_provider_id(req.model), req.tool_names),
                       IF req.impl = "main" THEN "" ELSE ParallelToolCalls(req.model),
                       TRUE))
            /\ client' = "open"
            /\ contacted' = contacted \cup {"gateway"}
            /\ pc' = IF UsesStreamingLoop THEN "gen_stream" ELSE "legacy_wait"
       ELSE /\ pc' = "after_loop"
            /\ UNCHANGED <<iteration, should_force_tools_first_turn, upstream_log,
                           client, contacted>>
    /\ tool_builders' = [i \in {} |-> NoCall]
    /\ completed_call' = NoCall
    /\ yielded_events' = <<>>
    /\ content_sent' = FALSE
    /\ UNCHANGED <<req, events, messages, sent_any_content, func_args, pending_calls,
                   search_cache, unique_search_count, clamp_warning_sent,
                   executor_log, backend_calls, chunks>>
    /\ UNCHANGED <<tracker_returns, received, scheduler, suspended, hint, parsed, returned, cleared>>

\* a loop that reads on after a call became complete
StreamOn(b) == "gen_stream"

\* chat.py 398-409 / router.py 112-115: break out of the stream at the
\* delta that completes a call, continue otherwise
AfterDelta(b) == IF BuilderComplete(b) THEN "tool_start" ELSE "gen_stream"

\* chat.py 383-416 / router.py 87-120: one upstream event of the turn
GenConsume(ev) ==
    /\ chunks' = chunks + 1
    /\ IF ev.type = "tool_call_delta"
       THEN LET builders == UpdateBuilder(tool_builders, ev)
                b        == builders[ev.index]
            IN  /\ tool_builders' = builders
                /\ IF BuilderComplete(b)
                   THEN /\ completed_call' =
                               [id |-> CallId(b, ev.index, iteration),
                                name |-> b.name, arguments |-> b.arguments]
                   ELSE UNCHANGED <<completed_call>>
                /\ pc' = AfterDelta(b)
                /\ UNCHANGED <<events, yielded_events, sent_any_content, content_sent>>
       ELSE LET frame == IF ev.type = "reasoning"
                         THEN stream_reasoning_event(ev.content)
                         ELSE stream_content_event(ev.content)
            IN  /\ IF req.impl = "chat"
                   THEN /\ events' = Append(events, frame)
                        /\ sent_any_content' = (sent_any_content \/ ev.type = "content_delta")
                        /\ UNCHANGED <<yielded_events, content_sent>>
                   ELSE /\ yielded_events' = Append(yielded_events, frame)
                        /\ content_sent' = (content_sent \/ ev.type = "content_delta")
                        /\ UNCHANGED <<events, sent_any_content>>
                /\ UNCHANGED <<tool_builders, completed_call, pc>>
    /\ UNCHANGED <<req, messages, iteration, should_force_tools_first_turn, func_args,
                   pending_calls, search_cache, unique_search_count,
                   clamp_warning_sent, client, upstream_log, executor_log,
                   backend_calls, contacted>>

\* chat.py 417-418, 522-530 / router.py 122-125, 198-206: the stream stops
\* with no completed call, or raises
GenStop(end) ==
    /\ IF end = "raise"
       THEN /\ Fail(events, "upstream error")
            /\ UNCHANGED <<sent_any_content>>
       ELSE /\ pc' = "after_loop"
            /\ client' = client
            /\ IF req.impl = "chat"
               THEN /\ events' = IF sent_any_content THEN events
                                 ELSE Append(events, stream_content_event(NO_CONTENT))
                    /\ sent_any_content' = TRUE
               ELSE /\ events' = events \o yielded_events \o
                                 (IF content_sent THEN <<>>
                                  ELSE <<stream_content_event(NO_CONTENT)>>)
                    /\ UNCHANGED <<sent_any_content>>
    /\ yielded_events' = <<>>
    /\ UNCHANGED <<req, messages, iteration, should_force_tools_first_turn,
                   tool_builders, completed_call, func_args, pending_calls,
                   search_cache, unique_search_count, clamp_warning_sent,
                   content_sent, upstream_log, executor_log, backend_calls,
                   contacted, chunks>>

\* one step of `async for ev in svc.stream_events(...)` over the events
\* upstream may send; logged says whether the event read is kept in received
GenEventOf(offered, logged) ==
    /\ pc = "gen_stream"
    /\ \/ \E ev \in offered :
            /\ chunks < MaxChunks
            /\ GenConsume(ev)
            /\ received' = IF logged THEN Append(received, ev) ELSE received
       \/ \E end \in StreamEnds : GenStop(end) /\ UNCHANGED received
    /\ UNCHANGED <<tracker_returns, scheduler, suspended, hint, parsed, returned, cleared>>

GenEvent == GenEventOf(StreamEvents, FALSE)

\* chat.py 484-501 / router.py 228-237, 136-144: tool_result frame, tool
\* message, nudge and the non-streaming finalization request, after the
\* frames evs were written and with msgs as the conversation
Deliver(evs, msgs, call_id, func_name, result) ==
    IF ~JsonSerializable(result)
    THEN /\ Fail(evs, "Object of type complex is not JSON serializable")
         /\ messages' = msgs
         /\ UNCHANGED <<upstream_log>>
    ELSE LET final == append_finalization_prompt(append_tool_result(msgs, call_id, result))
         IN  /\ events' = Append(evs, stream_tool_result_event(call_id, func_name, result))
             /\ messages' = final
             /\ upstream_log' = Append(upstream_log,
                    UpstreamRequest("completion", "finalization", final, "none", "", TRUE))
             /\ client' = "open"
             /\ pc' = "finalize_wait"

\* chat.py 420-482 / router.py 208-226: tool_calls and tool_executing
\* frames, assistant message, enrichment, dedupe/clamp, executor call
ToolStart ==
    /\ pc = "tool_start"
    /\ LET call  == completed_call
           args0 == ParseToolArguments(call.arguments)
           args  == IF req.impl = "chat" /\ call.name = "search_web"
                    THEN EnrichSearchArgs(args0,
                             parse_time_constraints(req.prompt.text, DefaultNow))
                    ELSE args0
           what  == DedupeDecision(req.impl = "chat", call.name, args,
                                   search_cache, unique_search_count)
           evs   == events \o yielded_events
                    \o <<stream_tool_calls_event(<<call>>),
                         stream_tool_executing_event(call.id, call.name)>>
           msgs  == Append(messages, build_assistant_tool_message(<<call>>))
       IN  /\ func_args' = args
           /\ CASE what = "cached" ->
                     /\ Deliver(evs, msgs, call.id, call.name,
                                search_cache[create_search_cache_key(args)])
                     /\ UNCHANGED <<clamp_warning_sent, executor_log, contacted>>
                [] what = "clamp" ->
                     /\ clamp_warning_sent' = TRUE
                     /\ Deliver(IF clamp_warning_sent THEN evs
                                ELSE Append(evs, stream_warning_event(
                                         "Trimmed tool calls to " \o ToString(search_clamp_limit), "TOOL_CLAMP")),
                                msgs, call.id, call.name, ClampError)
                     /\ UNCHANGED <<executor_log, contacted>>
                [] OTHER ->
                     /\ events' = evs
                     /\ messages' = msgs
                     /\ executor_log' = Append(executor_log,
                            Invocation(call.id, call.name, args))
                     /\ contacted' = contacted \cup {"executor"}
                     /\ pc' = "exec_wait"
                     /\ UNCHANGED <<clamp_warning_sent, upstream_log, client>>
    /\ yielded_events' = <<>>
    /\ UNCHANGED <<req, iteration, sent_any_content, should_force_tools_first_turn,
                   tool_builders, completed_call, pending_calls, search_cache,
                   unique_search_count, content_sent, backend_calls, chunks>>
    /\ UNCHANGED <<tracker_returns, received, scheduler, suspended, hint, parsed, returned, cleared>>

\* chat.py 475-491 / router.py 226-234: the executor returns
ToolReturn ==
    /\ pc = "exec_wait"
    /\ \E outcome \in ToolOutcomes(completed_call.name) :
         LET call    == completed_call
             reaches == ContactsBackend(call.name, func_args)
             n       == IF reaches THEN backend_calls + 1 ELSE backend_calls
             result  == execute(call.name, func_args, outcome, n)
             caches  == /\ DedupeDecision(req.impl = "chat", call.name, func_args,
                                          search_cache, unique_search_count)
                              = "execute_and_cache"
                        /\ result.success
             key     == create_search_cache_key(func_args)
         IN  /\ backend_calls' = n
             /\ contacted' = IF reaches THEN contacted \cup {"tool_backend"} ELSE contacted
             /\ search_cache' =
                    IF caches
                    THEN [k \in DOMAIN search_cache \cup {key} |->
                             IF k = key THEN result ELSE search_cache[k]]
                    ELSE search_cache
             /\ unique_search_count' =
                    IF caches THEN unique_search_count + 1 ELSE unique_search_count
             /\ executor_log' = Returned(executor_log,
                    IF reaches THEN outcome ELSE "not_run", result)
             /\ Deliver(events, messages, call.id, call.name, result)
    /\ UNCHANGED <<req, iteration, sent_any_content, should_force_tools_first_turn,
                   tool_builders, completed_call, func_args, pending_calls,
                   clamp_warning_sent, yielded_events, content_sent, chunks>>
    /\ UNCHANGED <<tracker_returns, received, scheduler, suspended, hint, parsed, returned, cleared>>

\* a turn that goes back to the head of the loop
NextIteration == "loop_head"

\* chat.py 508, 518, 521 / router.py 239: the streaming loop is left by
\* `break` when the turn that ran a tool has its answer
AfterStreamingTurn == "after_loop"

\* a failed attempt reported as an error
AttemptFailedAsError(impl) ==
    <<stream_error_event("Non-streaming finalization failed")>>

\* chat.py 509-510, 697-698 / main.py 513-514: a debug frame when the
\* non-streaming finalization raised; router.py 151-152: nothing
AttemptFailed(impl) ==
    IF impl \in {"chat", "main"}
    THEN <<stream_debug_event("Non-streaming finalization failed")>>
    ELSE <<>>

\* chat.py 501-515, 681-703 / router.py 144-156: the non-streaming finalization
\* returns text, returns no text, or raises; without text the streaming
\* fallback request is made
FinalizeReturn ==
    /\ pc = "finalize_wait"
    /\ \E outcome \in {"text", "empty", "raise"} :
         IF outcome = "text"
         THEN /\ events' = Append(events, stream_content_event("answer"))
              /\ sent_any_content' = (req.impl \in {"chat", "main"} \/ sent_any_content)
              /\ pc' = IF UsesStreamingLoop THEN AfterStreamingTurn ELSE "after_loop"
              /\ UNCHANGED <<upstream_log, chunks>>
         ELSE /\ events' = IF outcome = "raise"
                           THEN events \o AttemptFailed(req.impl)
                           ELSE events
              /\ upstream_log' = Append(upstream_log,
                     UpstreamRequest(
                         IF UsesStreamingLoop \/ req.impl = "main"
                         THEN "stream_completion" ELSE "stream_events",
                         "finalization", messages, "", "", FALSE))
              /\ pc' = IF UsesStreamingLoop THEN "fallback_stream"
                       ELSE "legacy_fallback_stream"
              /\ chunks' = 0
              /\ UNCHANGED <<sent_any_content>>
    /\ UNCHANGED <<req, messages, iteration, should_force_tools_first_turn,
                   tool_builders, completed_call, func_args, pending_calls,
                   search_cache, unique_search_count, clamp_warning_sent,
                   yielded_events, content_sent, client, executor_log,
                   backend_calls, contacted>>
    /\ UNCHANGED <<tracker_returns, received, scheduler, suspended, hint, parsed, returned, cleared>>

\* chat.py 515-521 / router.py 156-159: the streaming fallback
FallbackStream ==
    /\ pc = "fallback_stream"
    /\ \/ \E t \in FallbackTexts :
            /\ chunks < MaxFallbackChunks
            /\ chunks' = chunks + 1
            /\ events' = Append(events, stream_content_event(t))
            /\ sent_any_content' = (req.impl = "chat" \/ sent_any_content)
            /\ UNCHANGED <<pc>>
       \/ \E end \in StreamEnds :
            /\ events' = IF end = "raise"
                         THEN Append(events, stream_error_event(
                                  "Streaming finalization failed"))
                         ELSE events
            /\ pc' = AfterStreamingTurn
            /\ UNCHANGED <<chunks, sent_any_content>>
    /\ UNCHANGED <<req, messages, iteration, should_force_tools_first_turn,
                   tool_builders, completed_call, func_args, pending_calls,
                   search_cache, unique_search_count, clamp_warning_sent,
                   yielded_events, content_sent, client, upstream_log,
                   executor_log, backend_calls, contacted>>
    /\ UNCHANGED <<tracker_returns, received, scheduler, suspended, hint, parsed, returned, cleared>>

\* chat.py 748-764 / router.py 241-242, 316-321 / main.py 573-597:
\* iteration cap, done, close
AfterLoop ==
    /\ pc = "after_loop"
    /\ LET capped == iteration >= req.max_tool_calls
           cap    == IF ~capped THEN <<>>
                     ELSE <<stream_warning_event(IterationWarning(req.max_tool_calls), "")>>
                          \o (IF req.impl \in {"chat", "main"} /\ ~sent_any_content
                              THEN <<stream_content_event(STOPPED)>> ELSE <<>>)
       IN  /\ events' = events \o cap \o <<stream_done_event>>
           /\ sent_any_content' =
                  (sent_any_content \/ (capped /\ req.impl \in {"chat", "main"}))
    /\ client' = Closed(client)
    /\ pc' = "terminal"
    /\ UNCHANGED <<req, messages, iteration, should_force_tools_first_turn,
                   tool_builders, completed_call, func_args, pending_calls,
                   search_cache, unique_search_count, clamp_warning_sent,
                   yielded_events, content_sent, upstream_log, executor_log,
                   backend_calls, contacted, chunks>>
    /\ UNCHANGED <<tracker_returns, received, scheduler, suspended, hint, parsed, returned, cleared>>

\* chat.py 753-764 / router.py 311-316 / main.py 581-589: the path without
\* tools reads one more line of the body with stream_completion, or the
\* stream stops
PlainStream ==
    /\ pc = "plain_stream"
    /\ \/ \E line \in BodyLines :
            /\ chunks < MaxChunks
            /\ chunks' = chunks + 1
            /\ received' = Append(received, line)
            /\ events' = events \o
                   [i \in DOMAIN stream_completion(line) |->
                       stream_content_event(stream_completion(line)[i])]
            /\ sent_any_content' = (sent_any_content \/ stream_completion(line) # <<>>)
            /\ UNCHANGED <<pc, client>>
       \/ \E end \in StreamEnds :
            /\ IF end = "raise"
               THEN Fail(events, "upstream error")
               ELSE /\ events' = Append(events, stream_done_event)
                    /\ client' = Closed(client)
                    /\ pc' = "terminal"
            /\ UNCHANGED <<chunks, sent_any_content, received>>
    /\ UNCHANGED <<req, messages, iteration, should_force_tools_first_turn,
                   tool_builders, completed_call, func_args, pending_calls,
                   search_cache, unique_search_count, clamp_warning_sent,
                   yielded_events, content_sent, upstream_log, executor_log,
                   backend_calls, contacted>>
    /\ UNCHANGED <<tracker_returns, scheduler, suspended, hint, parsed, returned, cleared>>

\* tool calls a non-streaming upstream message may carry: with an id,
\* without one, and for a second tool
LegacyCalls ==
    {[id |-> "c1", name |-> "search_web", arguments |-> <<"{", "qa", "}">>],
     [id |-> "", name |-> "search_web", arguments |-> <<"{", "qA", "}">>],
     [id |-> "c2", name |-> "calculate", arguments |-> <<"{", "x", "}">>]}

LegacyCall(id) == CHOOSE c \in LegacyCalls : c.id = id

\* tool_calls of a message: one call, the same search twice (spelled
\* differently), two calls without an id, two tools
LegacyCallLists ==
    {<<c>> : c \in LegacyCalls}
    \cup {<<LegacyCall("c1"), LegacyCall("")>>,
          <<LegacyCall(""), LegacyCall("")>>,
          <<LegacyCall("c1"), LegacyCall("c2")>>}

\* choices[0].message of a non-streaming completion
LegacyMessages ==
    [reasoning : BOOLEAN, content : {""}, tool_calls : LegacyCallLists]
    \cup [reasoning : BOOLEAN, content : {"answer"}, tool_calls : {<<>>}]
    \cup [reasoning : {FALSE}, content : {""}, tool_calls : {<<>>}]

\* tc.get("id", "unknown")
IdOrUnknown(id) == IF id # "" THEN id ELSE "unknown"

\* chat.py 532-599, 722-746: the non-streaming turn returns one of the
\* messages offered, or the request raises
LegacyReturnOf(offered) ==
    /\ pc = "legacy_wait"
    /\ \/ /\ Fail(events, "upstream error")
          /\ UNCHANGED <<messages, pending_calls, sent_any_content>>
       \/ \E m \in offered :
            LET evs == IF m.reasoning
                       THEN Append(events, stream_reasoning_event("r")) ELSE events
                msg == [role |-> "assistant", content |-> TextContent(m.content),
                        tool_calls |-> m.tool_calls, tool_call_id |-> ""]
                any_tools_executed == \E i \in DOMAIN messages : messages[i].role = "tool"
                again == IF m.content # ""
                         THEN /\ iteration = 2
                              /\ ~any_tools_executed
                              /\ should_force_tools_first_turn
                         ELSE iteration <= 2 /\ ~any_tools_executed
            IN  /\ client' = client
                /\ IF m.tool_calls # <<>>
                   THEN /\ events' = Append(evs, stream_tool_calls_event(
                               [i \in DOMAIN m.tool_calls |->
                                   [m.tool_calls[i] EXCEPT !.id = IdOrUnknown(@)]]))
                        /\ messages' = Append(messages, msg)
                        /\ pending_calls' = m.tool_calls
                        /\ pc' = "legacy_tool"
                        /\ UNCHANGED <<sent_any_content>>
                   ELSE IF again
                   THEN /\ events' = evs
                        /\ messages' = Append(messages, msg)
                        /\ pc' = "loop_head"
                        /\ UNCHANGED <<pending_calls, sent_any_content>>
                   ELSE /\ events' = Append(evs, stream_content_event(
                               IF m.content # "" THEN m.content ELSE NO_CONTENT))
                        /\ sent_any_content' = TRUE
                        /\ pc' = "after_loop"
                        /\ UNCHANGED <<messages, pending_calls>>
    /\ UNCHANGED <<req, iteration, should_force_tools_first_turn, tool_builders,
                   completed_call, func_args, search_cache, unique_search_count,
                   clamp_warning_sent, yielded_events, content_sent, upstream_log,
                   executor_log, backend_calls, contacted, chunks>>
    /\ UNCHANGED <<tracker_returns, received, scheduler, suspended, hint, parsed, returned, cleared>>

LegacyReturn == LegacyReturnOf(LegacyMessages)

\* chat.py 647-683: tool_result frame and tool message of one call of the
\* message; after the last call the nudge and the finalization request
LegacyDeliver(evs, call, result) ==
    IF ~JsonSerializable(result)
    THEN /\ Fail(evs, "Object of type complex is not JSON serializable")
         /\ UNCHANGED <<messages, upstream_log, pending_calls>>
    ELSE LET with_tool == append_tool_result(messages, IdOrUnknown(call.id), result)
             rest      == Tail(pending_calls)
         IN  /\ events' = Append(evs, stream_tool_result_event(
                                          IdOrUnknown(call.id), call.name, result))
             /\ pending_calls' = rest
             /\ IF rest # <<>>
                THEN /\ messages' = with_tool
                     /\ pc' = "legacy_tool"
                     /\ UNCHANGED <<upstream_log, client>>
                ELSE /\ messages' = append_finalization_prompt(with_tool)
                     /\ upstream_log' = Append(upstream_log,
                            UpstreamRequest("completion", "finalization",
                                append_finalization_prompt(with_tool), "none", "", TRUE))
                     /\ client' = "open"
                     /\ pc' = "finalize_wait"

\* chat.py 593-645: tool_executing frame, arguments, enrichment, the
\* dedupe/clamp block (guarded by tool_loop_v2) and the executor call
LegacyToolStart ==
    /\ pc = "legacy_tool"
    /\ LET call  == Head(pending_calls)
           args0 == ParseToolArguments(call.arguments)
           args  == IF call.name = "search_web"
                    THEN EnrichSearchArgs(args0,
                             parse_time_constraints(req.prompt.text, DefaultNow))
                    ELSE args0
           what  == DedupeDecision(req.tool_loop_v2, call.name, args,
                                   search_cache, unique_search_count)
           evs   == Append(events,
                           stream_tool_executing_event(IdOrUnknown(call.id), call.name))
       IN  /\ func_args' = args
           /\ CASE what = "cached" ->
                     /\ LegacyDeliver(evs, call,
                                      search_cache[create_search_cache_key(args)])
                     /\ UNCHANGED <<clamp_warning_sent, executor_log, contacted>>
                [] what = "clamp" ->
                     /\ clamp_warning_sent' = TRUE
                     /\ LegacyDeliver(IF clamp_warning_sent THEN evs
                                      ELSE Append(evs, stream_warning_event(
                                               "Trimmed tool calls to " \o ToString(search_clamp_limit), "TOOL_CLAMP")),
                                      call, ClampError)
                     /\ UNCHANGED <<executor_log, contacted>>
                [] OTHER ->
                     /\ events' = evs
                     /\ executor_log' = Append(executor_log,
                            Invocation(IdOrUnknown(call.id), call.name, args))
                     /\ contacted' = contacted \cup {"executor"}
                     /\ pc' = "legacy_exec_wait"
                     /\ UNCHANGED <<messages, pending_calls, clamp_warning_sent,
                                    upstream_log, client>>
    /\ UNCHANGED <<req, iteration, sent_any_content, should_force_tools_first_turn,
                   tool_builders, completed_call, search_cache, unique_search_count,
                   yielded_events, content_sent, backend_calls, chunks>>
    /\ UNCHANGED <<tracker_returns, received, scheduler, suspended, hint, parsed, returned, cleared>>

\* chat.py 638-666: the executor returns in the non-streaming loop
LegacyToolReturn ==
    /\ pc = "legacy_exec_wait"
    /\ \E outcome \in ToolOutcomes(Head(pending_calls).name) :
         LET call    == Head(pending_calls)
             reaches == ContactsBackend(call.name, func_args)
             n       == IF reaches THEN backend_calls + 1 ELSE backend_calls
             result  == execute(call.name, func_args, outcome, n)
             caches  == /\ DedupeDecision(req.tool_loop_v2, call.name, func_args,
                                          search_cache, unique_search_count)
                              = "execute_and_cache"
                        /\ result.success
             key     == create_search_cache_key(func_args)
         IN  /\ backend_calls' = n
             /\ contacted' = IF reaches THEN contacted \cup {"tool_backend"} ELSE contacted
             /\ search_cache' =
                    IF caches
                    THEN [k \in DOMAIN search_cache \cup {key} |->
                             IF k = key THEN result ELSE search_cache[k]]
                    ELSE search_cache
             /\ unique_search_count' =
                    IF caches THEN unique_search_count + 1 ELSE unique_search_count
             /\ executor_log' = Returned(executor_log,
                    IF reaches THEN outcome ELSE "not_run", result)
             /\ LegacyDeliver(events, call, result)
    /\ UNCHANGED <<req, iteration, sent_any_content, should_force_tools_first_turn,
                   tool_builders, completed_call, func_args, clamp_warning_sent,
                   yielded_events, content_sent, chunks>>
    /\ UNCHANGED <<tracker_returns, received, scheduler, suspended, hint, parsed, returned, cleared>>

\* chat.py 700-721 / main.py 515-531: the streaming fallback of the
\* non-streaming loop; main.py reads text chunks with stream_completion
LegacyFallbackStream ==
    /\ pc = "legacy_fallback_stream"
    /\ \/ \E ev \in FallbackEvents :
            /\ req.impl = "main" => ev.type = "content_delta"
            /\ chunks < MaxFallbackChunks
            /\ chunks' = chunks + 1
            /\ events' =
                   CASE ev.type = "reasoning" ->
                            Append(events, stream_reasoning_event(ev.content))
                     [] ev.type = "content_delta" ->
                            Append(events, stream_content_event(ev.content))
                     [] OTHER -> events
            /\ sent_any_content' = (sent_any_content \/ ev.type = "content_delta")
            /\ UNCHANGED <<pc>>
       \/ \E end \in StreamEnds :
            /\ events' =
                   IF end = "raise"
                   THEN Append(events, stream_error_event("Streaming finalization failed"))
                   ELSE IF ~sent_any_content
                   THEN Append(events, stream_content_event(NO_CONTENT))
                   ELSE events
            /\ sent_any_content' = (sent_any_content \/ end # "raise")
            /\ pc' = "after_loop"
            /\ UNCHANGED <<chunks>>
    /\ UNCHANGED <<req, messages, iteration, should_force_tools_first_turn,
                   tool_builders, completed_call, func_args, pending_calls,
                   search_cache, unique_search_count, clamp_warning_sent,
                   yielded_events, content_sent, client, upstream_log,
                   executor_log, backend_calls, contacted>>
    /\ UNCHANGED <<tracker_returns, received, scheduler, suspended, hint, parsed, returned, cleared>>

\* the client disconnects while the generator is suspended inside its try
\* block: GeneratorExit / CancelledError runs only the finally clause
Abort ==
    /\ pc \notin {"init", "terminal", "aborted"}
    /\ pc' = "aborted"
    /\ client' = Closed(client)
    /\ UNCHANGED <<req, events, messages, iteration, sent_any_content,
                   should_force_tools_first_turn, tool_builders, completed_call,
                   func_args, pending_calls, search_cache, unique_search_count,
                   clamp_warning_sent, yielded_events, content_sent, upstream_log,
                   executor_log, backend_calls, contacted, chunks>>
    /\ UNCHANGED <<tracker_returns, received, scheduler, suspended, hint, parsed, returned, cleared>>

Next ==
    \/ Start
    \/ LoopHead
    \/ GenEvent
    \/ ToolStart
    \/ ToolReturn
    \/ FinalizeReturn
    \/ FallbackStream
    \/ AfterLoop
    \/ PlainStream
    \/ LegacyReturn
    \/ LegacyToolStart
    \/ LegacyToolReturn
    \/ LegacyFallbackStream
    \/ Abort

Spec == Init /\ [][Next]_vars

\* the client stays connected and every await of the generator completes:
\* the event loop resumes the generator whenever an upstream call or a tool
\* call has returned or raised
NextConnected ==
    \/ Start
    \/ LoopHead
    \/ GenEvent
    \/ ToolStart
    \/ ToolReturn
    \/ FinalizeReturn
    \/ FallbackStream
    \/ AfterLoop
    \/ PlainStream
    \/ LegacyReturn
    \/ LegacyToolStart
    \/ LegacyToolReturn
    \/ LegacyFallbackStream

LiveSpec == Init /\ [][NextConnected]_vars /\ WF_vars(NextConnected)

\* ------------------------------------------- the tool executor on its own
\* tool names and argument values handed to ToolExecutor.execute: a name
\* that is not registered; arguments that are not an object, lack a required
\* parameter, carry an unexpected one, or hold a number or a blank string
\* where the tool expects text
ToolNames == RegisteredTools \cup {"read_url"}

ArgumentValues ==
    {ParseJson(doc) : doc \in {<<"1">>, <<"{", "}">>, <<"{", "qa", "}">>,
                               <<"{", "qn", "}">>, <<"{", "q_", "}">>,
                               <<"{", "x", "}">>, <<"{", "qa", "h", "}">>,
                               <<"{", "qa", "x", "}">>}}

ExecInit ==
    /\ req = CHOOSE r \in ChatRequests : TRUE
    /\ pc = "executor"
    /\ events = <<>>
    /\ messages = <<>>
    /\ iteration = 0
    /\ sent_any_content = FALSE
    /\ should_force_tools_first_turn = FALSE
    /\ tool_builders = [i \in {} |-> NoCall]
    /\ completed_call = NoCall
    /\ func_args = NoArgs
    /\ pending_calls = <<>>
    /\ search_cache = EmptyMap
    /\ unique_search_count = 0
    /\ clamp_warning_sent = FALSE
    /\ yielded_events = <<>>
    /\ content_sent = FALSE
    /\ client = "none"
    /\ upstream_log = <<>>
    /\ executor_log = <<>>
    /\ backend_calls = 0
    /\ contacted = {}
    /\ chunks = 0
    /\ tracker_returns = <<>>
    /\ received = <<>>
    /\ scheduler = [running |-> 1, switches |-> 0]
    /\ suspended = NoFrame
    /\ hint = NoHint
    /\ parsed = <<>>
    /\ returned = NoReturn
    /\ cleared = {}

\* tool_executor.py 102-149: one call of execute, from entry to return
Execute ==
    /\ pc = "executor"
    /\ Len(executor_log) < MaxExecutions
    /\ \E tool_name \in ToolNames, arguments \in ArgumentValues :
         \E outcome \in ToolOutcomes(tool_name) :
           LET reaches == ContactsBackend(tool_name, arguments)
               n       == IF reaches THEN backend_calls + 1 ELSE backend_calls
           IN  /\ backend_calls' = n
               /\ contacted' = IF reaches THEN contacted \cup {"tool_backend"}
                                ELSE contacted
               /\ executor_log' = Returned(
                      Append(executor_log, Invocation("", tool_name, arguments)),
                      IF reaches THEN outcome ELSE "not_run",
                      execute(tool_name, arguments, outcome, n))
    /\ UNCHANGED <<req, pc, events, messages, iteration, sent_any_content,
                   should_force_tools_first_turn, tool_builders, completed_call,
                   func_args, pending_calls, search_cache, unique_search_count,
                   clamp_warning_sent, yielded_events, content_sent, client,
                   upstream_log, chunks>>
    /\ UNCHANGED <<tracker_returns, received, scheduler, suspended, hint, parsed, returned, cleared>>

ExecNext == Execute

ExecSpec == ExecInit /\ [][ExecNext]_vars

\* ------------------------------------------- requests with their parameters
\* model ids of three providers: "o/m", "x-ai/g" and "anthropic:b/c"
ParamModels ==
    {<<"o", "/", "m">>,
     <<"x", "-", "a", "i", "/", "g">>,
     <<"a", "n", "t", "h", "r", "o", "p", "i", "c", ":", "b", "/", "c">>}

\* tool_choice as the client may send it: the generic values, the name of a
\* tool that is offered and a name that is not
ToolChoices == {"auto", "none", "required", "search_web", "bogus"}

\* the three handlers of /api/chat/stream with tools offered and without
Handlers ==
    [impl : {"chat"}, tool_loop_v2 : BOOLEAN, tools : {"none", "array"},
     tool_names : {{"search_web", "calculate"}}]
    \cup [impl : {"main"}, tool_loop_v2 : {FALSE}, tools : {"none", "array"},
          tool_names : {{"search_web", "calculate"}}]
    \cup [impl : {"router"}, tool_loop_v2 : {FALSE}, tools : {"none"},
          tool_names : {{"search_web"}}]

\* the parameters a request varies: tool_choice with the model and the
\* prompt; response_format with the model; top_logprobs and logprobs; the
\* API key
ParamChoices ==
    [api_key : {TRUE}, model : ParamModels, tool_choice : ToolChoices,
     response_format : {""}, top_logprobs : {NoInt}, logprobs : {"none"},
     prompt : Prompts]
    \cup [api_key : {TRUE}, model : ParamModels, tool_choice : {"search_web"},
          response_format : {"json"}, top_logprobs : {NoInt}, logprobs : {"none"},
          prompt : {[system |-> "", prompt |-> "", text |-> NoText]}]
    \cup [api_key : {TRUE}, model : {<<"o", "/", "m">>}, tool_choice : {"auto"},
          response_format : {""},
          top_logprobs : {NoInt, SomeInt(0), SomeInt(3), SomeInt(9)},
          logprobs : {"none", "true", "false"},
          prompt : {[system |-> "", prompt |-> "", text |-> NoText]}]
    \cup [api_key : {FALSE}, model : {<<"o", "/", "m">>}, tool_choice : {"auto"},
          response_format : {""}, top_logprobs : {NoInt}, logprobs : {"none"},
          prompt : {[system |-> "", prompt |-> "", text |-> NoText]}]

ParamRequests ==
    {[impl |-> h.impl, tool_loop_v2 |-> h.tool_loop_v2, api_key |-> c.api_key,
      tools |-> h.tools, tool_names |-> h.tool_names,
      max_tool_calls |-> MaxLimit - 1, tool_choice |-> c.tool_choice,
      model |-> c.model, prompt |-> c.prompt,
      response_format |-> c.response_format,
      top_logprobs |-> c.top_logprobs, logprobs |-> c.logprobs] :
        h \in Handlers, c \in ParamChoices}

ParamInit ==
    /\ req \in ParamRequests
    /\ pc = "init"
    /\ events = <<>>
    /\ messages = <<>>
    /\ iteration = 0
    /\ sent_any_content = FALSE
    /\ should_force_tools_first_turn = FALSE
    /\ tool_builders = [i \in {} |-> NoCall]
    /\ completed_call = NoCall
    /\ func_args = NoArgs
    /\ pending_calls = <<>>
    /\ search_cache = EmptyMap
    /\ unique_search_count = 0
    /\ clamp_warning_sent = FALSE
    /\ yielded_events = <<>>
    /\ content_sent = FALSE
    /\ client = "none"
    /\ upstream_log = <<>>
    /\ executor_log = <<>>
    /\ backend_calls = 0
    /\ contacted = {}
    /\ chunks = 0
    /\ tracker_returns = <<>>
    /\ received = <<>>
    /\ scheduler = [running |-> 1, switches |-> 0]
    /\ suspended = NoFrame
    /\ hint = NoHint
    /\ parsed = <<>>
    /\ returned = NoReturn
    /\ cleared = {}

ParamNext == Next

ParamSpec == ParamInit /\ [][ParamNext]_vars

\* ------------------------------------- a turn with more searches than the clamp
\* one upstream message carrying search_clamp_limit + 1 searches with
\* pairwise different queries
ManySearches ==
    [i \in 1..(search_clamp_limit + 1) |->
        [id |-> "s" \o ToString(i), name |-> "search_web",
         arguments |-> <<"{", "q" \o ToString(i), "}">>]]

ClampMessages == {[reasoning |-> FALSE, content |-> "", tool_calls |-> ManySearches]}

ClampRequests ==
    {r \in ChatRequests :
        /\ ~r.tool_loop_v2 /\ r.api_key /\ r.tools = "array"
        /\ r.max_tool_calls = 1 /\ r.tool_choice = "auto" /\ r.prompt.prompt = ""}

ClampInit == Init /\ req \in ClampRequests

LegacyReturnMany == LegacyReturnOf(ClampMessages)

ClampNext ==
    \/ Start
    \/ LoopHead
    \/ LegacyReturnMany
    \/ LegacyToolStart
    \/ LegacyToolReturn
    \/ FinalizeReturn
    \/ LegacyFallbackStream
    \/ AfterLoop
    \/ Abort

ClampSpec == ClampInit /\ [][ClampNext]_vars

\* ------------------------------------------------- SearchTracker on its own
\* search.py 105-152: a tracker with the default clamp_limit, driven by any
\* sequence of get_or_clamp and cache_result calls. cache, unique_count and
\* clamp_warning_sent are search_cache, unique_search_count and
\* clamp_warning_sent.
TrackerArgs ==
    {ParseJson(<<"{", q, "}">>) : q \in NumberedQueries \cup {"qa", "qA"}}

TrackerResults ==
    {[success |-> TRUE, error |-> "", result |-> [n |-> 1, kind |-> "data"]],
     [success |-> FALSE, error |-> "search failed", result |-> NoPayload]}

\* the warning is reported due at every rejection
ShouldWarnAlways(warning_sent) == TRUE

\* search.py 136: the warning is due when none was sent before
should_warn(warning_sent) == ~warning_sent

TrackerInit ==
    /\ req = CHOOSE r \in ChatRequests : TRUE
    /\ pc = "tracker"
    /\ events = <<>>
    /\ messages = <<>>
    /\ iteration = 0
    /\ sent_any_content = FALSE
    /\ should_force_tools_first_turn = FALSE
    /\ tool_builders = [i \in {} |-> NoCall]
    /\ completed_call = NoCall
    /\ func_args = NoArgs
    /\ pending_calls = <<>>
    /\ search_cache = EmptyMap
    /\ unique_search_count = 0
    /\ clamp_warning_sent = FALSE
    /\ yielded_events = <<>>
    /\ content_sent = FALSE
    /\ client = "none"
    /\ upstream_log = <<>>
    /\ executor_log = <<>>
    /\ backend_calls = 0
    /\ contacted = {}
    /\ chunks = 0
    /\ tracker_returns = <<>>
    /\ received = <<>>
    /\ scheduler = [running |-> 1, switches |-> 0]
    /\ suspended = NoFrame
    /\ hint = NoHint
    /\ parsed = <<>>
    /\ returned = NoReturn
    /\ cleared = {}

\* search.py 119-140: cache first, then the clamp, else (None, False);
\* returned.some is FALSE for None
get_or_clamp ==
    /\ pc = "tracker"
    /\ \E args \in TrackerArgs :
         LET key == create_search_cache_key(args)
         IN  IF key \in DOMAIN search_cache
             THEN /\ returned' = [call |-> "get_or_clamp", args |-> args,
                                  some |-> TRUE, result |-> search_cache[key],
                                  should_warn |-> FALSE]
                  /\ UNCHANGED <<clamp_warning_sent, tracker_returns, cleared>>
             ELSE IF unique_search_count >= search_clamp_limit
             THEN /\ Len(tracker_returns) < MaxRejections
                  /\ tracker_returns' =
                         Append(tracker_returns, should_warn(clamp_warning_sent))
                  /\ clamp_warning_sent' = TRUE
                  /\ returned' = [call |-> "get_or_clamp", args |-> args,
                                  some |-> TRUE, result |-> ClampError,
                                  should_warn |-> should_warn(clamp_warning_sent)]
                  /\ UNCHANGED cleared
             ELSE /\ Cardinality(cleared \cup {args}) <= MaxPending
                  /\ returned' = [call |-> "get_or_clamp", args |-> args,
                                  some |-> FALSE, result |-> NoResult,
                                  should_warn |-> FALSE]
                  /\ cleared' = cleared \cup {args}
                  /\ UNCHANGED <<clamp_warning_sent, tracker_returns>>
    /\ UNCHANGED <<req, pc, events, messages, iteration, sent_any_content,
                   should_force_tools_first_turn, tool_builders, completed_call,
                   func_args, pending_calls, search_cache, unique_search_count,
                   yielded_events, content_sent, client, upstream_log,
                   executor_log, backend_calls, contacted, chunks>>
    /\ UNCHANGED <<received, scheduler, suspended, hint, parsed>>

\* a cache_result that stores and counts whatever it is given
CacheEveryResult(callers) ==
    /\ pc = "tracker"
    /\ unique_search_count < MaxTrackerCount
    /\ \E args \in callers, result \in TrackerResults :
         LET key == create_search_cache_key(args)
         IN  /\ search_cache' =
                    [k \in DOMAIN search_cache \cup {key} |->
                        IF k = key THEN result ELSE search_cache[k]]
             /\ unique_search_count' = unique_search_count + 1
             /\ cleared' = cleared \ {args}
    /\ UNCHANGED <<req, pc, events, messages, iteration, sent_any_content,
                   should_force_tools_first_turn, tool_builders, completed_call,
                   func_args, pending_calls, clamp_warning_sent,
                   yielded_events, content_sent, client, upstream_log,
                   executor_log, backend_calls, contacted, chunks,
                   tracker_returns>>
    /\ UNCHANGED <<received, scheduler, suspended, hint, parsed, returned>>

\* search.py 142-152: a successful result is stored and counted; callers
\* are the arguments the caller may pass
cache_result_for(callers) ==
    /\ pc = "tracker"
    /\ unique_search_count < MaxTrackerCount
    /\ \E args \in callers, result \in TrackerResults :
         LET key == create_search_cache_key(args)
         IN  /\ cleared' = cleared \ {args}
             /\ IF result.success
                THEN /\ search_cache' =
                            [k \in DOMAIN search_cache \cup {key} |->
                                IF k = key THEN result ELSE search_cache[k]]
                     /\ unique_search_count' = unique_search_count + 1
                ELSE UNCHANGED <<search_cache, unique_search_count>>
    /\ UNCHANGED <<req, pc, events, messages, iteration, sent_any_content,
                   should_force_tools_first_turn, tool_builders, completed_call,
                   func_args, pending_calls, clamp_warning_sent,
                   yielded_events, content_sent, client, upstream_log,
                   executor_log, backend_calls, contacted, chunks,
                   tracker_returns>>
    /\ UNCHANGED <<received, scheduler, suspended, hint, parsed, returned>>

cache_result == cache_result_for(TrackerArgs)

TrackerNext ==
    \/ get_or_clamp
    \/ cache_result

TrackerSpec == TrackerInit /\ [][TrackerNext]_vars

\* the tracker used by callers that check first: cache_result is called
\* only for arguments for which get_or_clamp returned (None, False), once
\* for each such return
CheckedUseSpec ==
    TrackerInit /\ [][get_or_clamp \/ cache_result_for(cleared)]_vars

\* ------------------------------------------------- two concurrent requests
\* Two calls of generate run on one event loop. The variables hold the frame
\* of the request that runs; suspended holds the frame of the other one,
\* left at a suspension point. A name that is not request-local denotes one
\* object for both requests.

\* the frame without the search cache, its count and its flag
LocalsButSearchState ==
    {"req", "pc", "events", "messages", "iteration",
     "sent_any_content", "should_force_tools_first_turn",
     "tool_builders", "completed_call", "func_args", "pending_calls",
     "yielded_events", "content_sent", "client", "upstream_log",
     "executor_log", "backend_calls", "contacted", "chunks",
     "received"}

\* chat.py 179-311: everything generate works on is created inside the call
\* (its parameters, messages, tool_names, svc, tool_executor, params,
\* search_cache, unique_search_count, clamp_warning_sent, tool_builders)
RequestLocal ==
    {"req", "pc", "events", "messages", "iteration",
     "sent_any_content", "should_force_tools_first_turn",
     "tool_builders", "completed_call", "func_args", "pending_calls",
     "search_cache", "unique_search_count", "clamp_warning_sent",
     "yielded_events", "content_sent", "client", "upstream_log",
     "executor_log", "backend_calls", "contacted", "chunks",
     "received"}

\* the frame of the request that runs
Snapshot ==
    [req |-> req,
     pc |-> pc,
     events |-> events,
     messages |-> messages,
     iteration |-> iteration,
     sent_any_content |-> sent_any_content,
     should_force_tools_first_turn |-> should_force_tools_first_turn,
     tool_builders |-> tool_builders,
     completed_call |-> completed_call,
     func_args |-> func_args,
     pending_calls |-> pending_calls,
     search_cache |-> search_cache,
     unique_search_count |-> unique_search_count,
     clamp_warning_sent |-> clamp_warning_sent,
     yielded_events |-> yielded_events,
     content_sent |-> content_sent,
     client |-> client,
     upstream_log |-> upstream_log,
     executor_log |-> executor_log,
     backend_calls |-> backend_calls,
     contacted |-> contacted,
     chunks |-> chunks,
     received |-> received]

\* the frame of a request that has not started
FreshFrame(r) ==
    [req |-> r,
     pc |-> "init",
     events |-> <<>>,
     messages |-> <<>>,
     iteration |-> 0,
     sent_any_content |-> FALSE,
     should_force_tools_first_turn |-> FALSE,
     tool_builders |-> [i \in {} |-> NoCall],
     completed_call |-> NoCall,
     func_args |-> NoArgs,
     pending_calls |-> <<>>,
     search_cache |-> EmptyMap,
     unique_search_count |-> 0,
     clamp_warning_sent |-> FALSE,
     yielded_events |-> <<>>,
     content_sent |-> FALSE,
     client |-> "none",
     upstream_log |-> <<>>,
     executor_log |-> <<>>,
     backend_calls |-> 0,
     contacted |-> {},
     chunks |-> 0,
     received |-> <<>>]

\* what the resumed request finds under a name: the value of its own frame
\* when the name is request-local, else the value the other request left
Resume(name, current, saved) == IF name \in RequestLocal THEN saved ELSE current

\* awaits at which the event loop may run the other request: the tool
\* executor's result and the finalization completion
SuspensionPoints == {"exec_wait", "finalize_wait"}

ConcRequests ==
    {r \in ChatRequests :
        /\ r.tool_loop_v2 /\ r.api_key /\ r.tools = "array"
        /\ r.max_tool_calls = 1 /\ r.tool_choice = "auto" /\ r.prompt.prompt = ""}

ConcInit ==
    /\ req \in ConcRequests
    /\ pc = "init"
    /\ events = <<>>
    /\ messages = <<>>
    /\ iteration = 0
    /\ sent_any_content = FALSE
    /\ should_force_tools_first_turn = FALSE
    /\ tool_builders = [i \in {} |-> NoCall]
    /\ completed_call = NoCall
    /\ func_args = NoArgs
    /\ pending_calls = <<>>
    /\ search_cache = EmptyMap
    /\ unique_search_count = 0
    /\ clamp_warning_sent = FALSE
    /\ yielded_events = <<>>
    /\ content_sent = FALSE
    /\ client = "none"
    /\ upstream_log = <<>>
    /\ executor_log = <<>>
    /\ backend_calls = 0
    /\ contacted = {}
    /\ chunks = 0
    /\ tracker_returns = <<>>
    /\ received = <<>>
    /\ scheduler = [running |-> 1, switches |-> 0]
    /\ \E r \in ConcRequests : suspended = FreshFrame(r)
    /\ hint = NoHint
    /\ parsed = <<>>
    /\ returned = NoReturn
    /\ cleared = {}

\* the running request awaits, the event loop resumes the other one
Switch ==
    /\ pc \in SuspensionPoints
    /\ scheduler.switches < MaxSwitches
    /\ scheduler' = [running |-> 3 - scheduler.running,
                     switches |-> scheduler.switches + 1]
    /\ suspended' = Snapshot
    /\ req' = Resume("req", req, suspended.req)
    /\ pc' = Resume("pc", pc, suspended.pc)
    /\ events' = Resume("events", events, suspended.events)
    /\ messages' = Resume("messages", messages, suspended.messages)
    /\ iteration' = Resume("iteration", iteration, suspended.iteration)
    /\ sent_any_content' = Resume("sent_any_content", sent_any_content, suspended.sent_any_content)
    /\ should_force_tools_first_turn' = Resume("should_force_tools_first_turn", should_force_tools_first_turn, suspended.should_force_tools_first_turn)
    /\ tool_builders' = Resume("tool_builders", tool_builders, suspended.tool_builders)
    /\ completed_call' = Resume("completed_call", completed_call, suspended.completed_call)
    /\ func_args' = Resume("func_args", func_args, suspended.func_args)
    /\ pending_calls' = Resume("pending_calls", pending_calls, suspended.pending_calls)
    /\ search_cache' = Resume("search_cache", search_cache, suspended.search_cache)
    /\ unique_search_count' = Resume("unique_search_count", unique_search_count, suspended.unique_search_count)
    /\ clamp_warning_sent' = Resume("clamp_warning_sent", clamp_warning_sent, suspended.clamp_warning_sent)
    /\ yielded_events' = Resume("yielded_events", yielded_events, suspended.yielded_events)
    /\ content_sent' = Resume("content_sent", content_sent, suspended.content_sent)
    /\ client' = Resume("client", client, suspended.client)
    /\ upstream_log' = Resume("upstream_log", upstream_log, suspended.upstream_log)
    /\ executor_log' = Resume("executor_log", executor_log, suspended.executor_log)
    /\ backend_calls' = Resume("backend_calls", backend_calls, suspended.backend_calls)
    /\ contacted' = Resume("contacted", contacted, suspended.contacted)
    /\ chunks' = Resume("chunks", chunks, suspended.chunks)
    /\ received' = Resume("received", received, suspended.received)
    /\ UNCHANGED <<tracker_returns, hint, parsed, returned, cleared>>

ConcNext ==
    \/ Start
    \/ LoopHead
    \/ GenEvent
    \/ ToolStart
    \/ ToolReturn
    \/ FinalizeReturn
    \/ FallbackStream
    \/ AfterLoop
    \/ Switch

ConcSpec == ConcInit /\ [][ConcNext]_vars

\* --------------------------------------- the time-constraint parser on its own
\* the largest N the pattern's \d{1,3} admits
MaxN == 999

\* what the regular expressions of the parser can find in a text: nothing,
\* a named span, or the pattern (last|past|in the last) N unit
TimeTexts ==
    {NoText}
    \cup {[span |-> s, n |-> 0, unit |-> "day", keywords |-> FALSE] :
             s \in {"today", "yesterday", "this_week", "last_week",
                    "this_month", "last_month"}}
    \cup {[span |-> "last_n", n |-> n, unit |-> u, keywords |-> FALSE] :
             n \in 0..MaxN,
             u \in {"day", "days", "week", "weeks", "month", "months", "year", "years"}}

\* datetime.utcnow() as the parser reads it: weekday(), day of the month,
\* and the length of the month before
Clocks == [weekday : 0..6, day : 1..31, prev_month_days : 28..31]

\* a request whose prompt holds one of the texts
TimeInit ==
    /\ req \in {[r EXCEPT !.prompt = [system |-> "", prompt |-> "", text |-> t]] :
                    r \in {CHOOSE c \in ChatRequests : TRUE}, t \in TimeTexts}
    /\ pc = "parser"
    /\ events = <<>>
    /\ messages = <<>>
    /\ iteration = 0
    /\ sent_any_content = FALSE
    /\ should_force_tools_first_turn = FALSE
    /\ tool_builders = [i \in {} |-> NoCall]
    /\ completed_call = NoCall
    /\ func_args = NoArgs
    /\ pending_calls = <<>>
    /\ search_cache = EmptyMap
    /\ unique_search_count = 0
    /\ clamp_warning_sent = FALSE
    /\ yielded_events = <<>>
    /\ content_sent = FALSE
    /\ client = "none"
    /\ upstream_log = <<>>
    /\ executor_log = <<>>
    /\ backend_calls = 0
    /\ contacted = {}
    /\ chunks = 0
    /\ tracker_returns = <<>>
    /\ received = <<>>
    /\ scheduler = [running |-> 1, switches |-> 0]
    /\ suspended = NoFrame
    /\ hint = NoHint
    /\ parsed = <<>>
    /\ returned = NoReturn
    /\ cleared = {}

\* chat.py 29-104 / main.py 115-195: one call of parse_time_constraints on
\* the text, at whatever date the clock shows
ParseTime ==
    /\ pc = "parser"
    /\ \E clock \in Clocks : hint' = parse_time_constraints(req.prompt.text, clock)
    /\ pc' = "parsed"
    /\ UNCHANGED <<req, events, messages, iteration, sent_any_content,
                   should_force_tools_first_turn, tool_builders, completed_call,
                   func_args, pending_calls, search_cache, unique_search_count,
                   clamp_warning_sent, yielded_events, content_sent, client,
                   upstream_log, executor_log, backend_calls, contacted, chunks>>
    /\ UNCHANGED <<tracker_returns, received, scheduler, suspended, parsed, returned, cleared>>

TimeSpec == TimeInit /\ [][ParseTime]_vars

\* ------------------------------------------ one generation turn, events kept
\* the deltas of Deltas and one that closes the call of index 0 under
\* another id
TurnEvents ==
    StreamEvents \cup {ToolCallDelta(0, "c9", "", <<"}">>)}

\* requests of the two streaming loops that run one turn
TurnInit ==
    /\ Init
    /\ UsesStreamingLoop
    /\ HasTools
    /\ req.api_key
    /\ req.max_tool_calls = 1
    /\ req.tool_choice = "auto"
    /\ req.prompt.text = NoText

\* the turn with every event read kept in received
TurnSpec ==
    TurnInit /\ [][\/ Start
                   \/ LoopHead
                   \/ GenEventOf(TurnEvents, TRUE)
                   \/ ToolStart
                   \/ ToolReturn
                   \/ FinalizeReturn
                   \/ FallbackStream
                   \/ AfterLoop]_vars

\* ------------------------------------------- the stream parser on its own
\* lines of a streamed response body as stream_events reads them: prefix is
\* what the line begins with, raw the text after it, kind what json.loads
\* makes of raw ("chunk": an object with choices[0].delta; "scalar": a
\* document that is no object; "malformed": no JSON), and content,
\* reasoning, tool_calls the fields of the delta
EventLine(prefix, kind, raw, content, reasoning, tool_calls) ==
    [prefix |-> prefix, kind |-> kind, raw |-> raw, content |-> content,
     reasoning |-> reasoning, tool_calls |-> tool_calls]

EventLines ==
    {EventLine("", "blank", "", "", "", <<>>),
     EventLine(": ", "comment", "keep-alive", "", "", <<>>),
     EventLine("data:", "done", "[DONE]", "", "", <<>>),
     EventLine("data: ", "done", "[DONE]", "", "", <<>>),
     EventLine("data: ", "malformed", "{oops", "", "", <<>>),
     EventLine("data: ", "scalar", "1", "", "", <<>>),
     EventLine("data: ", "chunk", "{c}", "Hel", "", <<>>),
     EventLine("data: ", "chunk", "{cr}", "lo", "r", <<>>),
     EventLine("data: ", "chunk", "{}", "", "", <<>>),
     EventLine("data: ", "chunk", "{t}", "", "",
               <<ToolCallDelta(0, "c1", "search_web", <<"{", "qa", "}">>)>>)}

\* a parser that forwards whatever follows the prefix
YieldRaw(line) == <<UpstreamEvent("content_delta", line.raw)>>

\* openrouter.py 191-243: what stream_events yields for one line
stream_events(line) ==
    IF line.prefix # "data: " THEN <<>>
    ELSE IF line.raw = "[DONE]" THEN <<UpstreamEvent("done", "")>>
    ELSE IF line.kind # "chunk" THEN <<UpstreamEvent("content_delta", line.raw)>>
    ELSE (IF line.content # ""
          THEN <<UpstreamEvent("content_delta", line.content)>> ELSE <<>>)
         \o (IF line.reasoning # ""
             THEN <<UpstreamEvent("reasoning", line.reasoning)>> ELSE <<>>)
         \o line.tool_calls

ParserInit ==
    /\ req = CHOOSE r \in ChatRequests : TRUE
    /\ pc = "lines"
    /\ events = <<>>
    /\ messages = <<>>
    /\ iteration = 0
    /\ sent_any_content = FALSE
    /\ should_force_tools_first_turn = FALSE
    /\ tool_builders = [i \in {} |-> NoCall]
    /\ completed_call = NoCall
    /\ func_args = NoArgs
    /\ pending_calls = <<>>
    /\ search_cache = EmptyMap
    /\ unique_search_count = 0
    /\ clamp_warning_sent = FALSE
    /\ yielded_events = <<>>
    /\ content_sent = FALSE
    /\ client = "open"
    /\ upstream_log = <<>>
    /\ executor_log = <<>>
    /\ backend_calls = 0
    /\ contacted = {}
    /\ chunks = 0
    /\ tracker_returns = <<>>
    /\ received = <<>>
    /\ scheduler = [running |-> 1, switches |-> 0]
    /\ suspended = NoFrame
    /\ hint = NoHint
    /\ parsed = <<>>
    /\ returned = NoReturn
    /\ cleared = {}

\* openrouter.py 191-243: one pass of `async for line in resp.aiter_lines()`,
\* or the body ends
ReadEventLine ==
    /\ pc = "lines"
    /\ \/ \E line \in EventLines :
            /\ chunks < MaxChunks
            /\ chunks' = chunks + 1
            /\ received' = Append(received, line)
            /\ parsed' = parsed \o stream_events(line)
            /\ pc' = IF line.prefix = "data: " /\ line.raw = "[DONE]"
                     THEN "lines_end" ELSE "lines"
       \/ /\ pc' = "lines_end"
          /\ UNCHANGED <<chunks, received, parsed>>
    /\ UNCHANGED <<req, events, messages, iteration, sent_any_content,
                   should_force_tools_first_turn, tool_builders, completed_call,
                   func_args, pending_calls, search_cache, unique_search_count,
                   clamp_warning_sent, yielded_events, content_sent, client,
                   upstream_log, executor_log, backend_calls, contacted>>
    /\ UNCHANGED <<tracker_returns, scheduler, suspended, hint, returned, cleared>>

ParserSpec == ParserInit /\ [][ReadEventLine]_vars

\* ------------------------------------------------------------------ claims
\* positions of the frames of one type in the downstream stream
FramesOf(type) == {i \in DOMAIN events : events[i].type = type}

\* the generator ran to its end and the client did not disconnect
Finished == pc = "terminal"

\* C1: a request that passed the API-key check and was not aborted has
\* exactly one done frame in its stream, and that frame is the last one.
ExactlyOneDoneLast ==
    (Finished /\ req.api_key) =>
        /\ events # <<>>
        /\ events[Len(events)].type = "done"
        /\ Cardinality(FramesOf("done")) = 1

\* C2: when the gateway fails, an error frame is written and a done frame
\* follows it: in a finished request every error frame is followed by done.
ErrorThenDone ==
    Finished =>
        \A i \in FramesOf("error") : \E j \in FramesOf("done") : j > i

\* C3: in a finished request every tool_executing frame is followed by a
\* tool_result frame with the same id, and at any moment every tool_result
\* frame has an earlier tool_executing frame with the same id.
ExecutingPairedWithResult ==
    /\ \A j \in FramesOf("tool_result") :
          \E i \in FramesOf("tool_executing") : i < j /\ events[i].id = events[j].id
    /\ Finished =>
          \A i \in FramesOf("tool_executing") :
             \E j \in FramesOf("tool_result") : j > i /\ events[j].id = events[i].id

\* the TOOL_CLAMP warning was written
ClampFired == \E i \in FramesOf("warning") : events[i].code = "TOOL_CLAMP"

\* C4: when a stream that reaches done holds a tool_calls frame and the
\* clamp warning did not fire, a content frame lies between the tool_calls
\* frame and done; stated for the streams without an error or debug frame,
\* where no upstream call failed.
ContentAfterToolCalls ==
    (/\ Finished
     /\ FramesOf("done") # {}
     /\ FramesOf("error") \cup FramesOf("debug") = {}
     /\ ~ClampFired) =>
        \A i \in FramesOf("tool_calls") :
           \E j \in FramesOf("content") :
              i < j /\ \A d \in FramesOf("done") : j < d

\* C5: in a stream with a tool_calls frame, every reasoning frame precedes
\* tool_calls, tool_calls precedes every tool_executing frame, every
\* tool_result frame precedes every content frame, and no content frame
\* precedes tool_calls.
ToolEventOrder ==
    \A t \in FramesOf("tool_calls") :
        /\ \A r \in FramesOf("reasoning") : r < t
        /\ \A x \in FramesOf("tool_executing") : t < x
        /\ \A c \in FramesOf("content") : t < c
        /\ \A c \in FramesOf("content") : \A u \in FramesOf("tool_result") : u < c

\* the position of the nearest assistant message before position i (0: none)
PrecedingAssistant(i) ==
    LET before == {k \in 1..(i - 1) : messages[k].role = "assistant"}
    IN  IF before = {} THEN 0 ELSE CHOOSE k \in before : \A l \in before : l <= k

ToolMessages == {i \in DOMAIN messages : messages[i].role = "tool"}

\* C6: at every moment each tool message's tool_call_id is the id of exactly
\* one call of the nearest preceding assistant message, and no two tool
\* messages have the same tool_call_id.
ToolCallIdsPaired ==
    /\ \A i \in ToolMessages :
          LET a == PrecedingAssistant(i)
          IN  /\ a # 0
              /\ Cardinality({k \in DOMAIN messages[a].tool_calls :
                     messages[a].tool_calls[k].id = messages[i].tool_call_id}) = 1
    /\ \A i, j \in ToolMessages :
          messages[i].tool_call_id = messages[j].tool_call_id => i = j

\* the conversation m is the initial messages, one assistant message with
\* calls, one tool message per call in order with its id, and the nudge
FinalizationShape(m) ==
    LET initial == build_initial_messages(req.prompt.system, req.prompt.prompt)
        n       == Len(initial)
    IN  /\ Len(m) >= n + 3
        /\ SubSeq(m, 1, n) = initial
        /\ m[n + 1].role = "assistant"
        /\ m[n + 1].tool_calls # <<>>
        /\ Len(m) = n + 1 + Len(m[n + 1].tool_calls) + 1
        /\ \A k \in DOMAIN m[n + 1].tool_calls :
              /\ m[n + 1 + k].role = "tool"
              /\ m[n + 1 + k].tool_call_id = m[n + 1].tool_calls[k].id
        /\ m[Len(m)] = Message("user", NUDGE)

\* C7: every finalization request sent upstream carries the initial
\* messages, then the assistant message with the executed calls, then one
\* tool message per call with the matching id, then the nudge as the last
\* message.
FinalizationConversation ==
    \A i \in DOMAIN upstream_log :
        upstream_log[i].phase = "finalization" =>
            FinalizationShape(upstream_log[i].messages)

\* the executor returned a failure envelope for invocation e
ReturnedFailure(e) == e.did # "pending" /\ ~e.result.success

\* C8: when the executor returns success=false and the client stays
\* connected, the request goes on: a tool_result frame with that envelope is
\* written, a tool message with content {"error": <error>} is appended,
\* once the message's calls are through the finalization request is sent,
\* and no error frame is written unless an upstream call failed.
ToolFailureDoesNotAbort ==
    \A n \in DOMAIN executor_log :
        LET e == executor_log[n]
        IN  (ReturnedFailure(e) /\ pc # "aborted") =>
              /\ \E i \in FramesOf("tool_result") :
                    events[i].id = e.id /\ events[i].result = e.result
              /\ \E k \in ToolMessages :
                    /\ messages[k].tool_call_id = e.id
                    /\ messages[k].content =
                          [kind |-> "json_error", text |-> e.result.error,
                           payload |-> NoPayload]
              /\ (pc \notin {"legacy_tool", "legacy_exec_wait"}) =>
                    \E u \in DOMAIN upstream_log :
                       upstream_log[u].phase = "finalization"
              /\ \A x \in FramesOf("error") :
                    events[x].content \in {"upstream error",
                                           "Streaming finalization failed"}

\* the conditions under which the executor answers with a failure: unknown
\* name, arguments that do not bind (TypeError), the tool raised, the tool
\* timed out, or the tool returned a dict with an error entry
MustFail(e) ==
    \/ e.name \notin RegisteredTools
    \/ ~BindsArguments(e.name, e.arguments)
    \/ ToolRaises(e.name, e.arguments)
    \/ BlankQuery(e.name, e.arguments)
    \/ e.did \in {"timeout", "error_payload"}

\* C9: every call of ToolExecutor.execute returns an envelope; it has
\* success=false and a non-empty error exactly when the name is unknown, the
\* tool timed out, the tool raised (argument-shape TypeError included) or
\* returned a dict with an error entry, and success=true with a result
\* otherwise.
ExecuteEnvelope ==
    \A n \in DOMAIN executor_log :
        LET e == executor_log[n]
        IN  e.did # "pending" =>
              /\ DOMAIN e.result = {"success", "error", "result"}
              /\ MustFail(e) <=> (~e.result.success /\ e.result.error # "")
              /\ ~MustFail(e) <=> (e.result.success /\ e.result.result # NoPayload)

\* C9 witness: one executor rejected arguments that do not bind and surfaced
\* a tool's error payload as a failure
ExecuteEnvelopeWitness ==
    /\ pc = "executor"
    /\ \E i, j \in DOMAIN executor_log :
          /\ executor_log[i].result.error = "Invalid arguments"
          /\ executor_log[j].did = "error_payload"
          /\ ~executor_log[j].result.success

\* invocation n of the executor is a search with a canonical key that
\* reached the search backend
BackendSearch(n) ==
    /\ executor_log[n].name = "search_web"
    /\ ~SearchKeyRaises(executor_log[n].arguments)
    /\ executor_log[n].did \notin {"pending", "not_run"}

\* C10: within one request, of the search_web calls with equal canonical
\* keys only the first contacts the search backend: no two invocations
\* that reached the backend have equal keys.
SearchBackendOncePerKey ==
    \A i, j \in DOMAIN executor_log :
        (i < j /\ BackendSearch(i) /\ BackendSearch(j)) =>
            create_search_cache_key(executor_log[i].arguments)
                # create_search_cache_key(executor_log[j].arguments)

\* the canonical keys of the searches before invocation n that reached the
\* backend and succeeded
EarlierUniqueSearches(n) ==
    {create_search_cache_key(executor_log[i].arguments) :
        i \in {k \in 1..(n - 1) : BackendSearch(k) /\ executor_log[k].result.success}}

\* C11: a search_web call with a new canonical key made after six unique
\* searches of the request is answered with the clamp error and does not
\* reach the search backend.
SeventhSearchClamped ==
    \A n \in DOMAIN executor_log :
        (/\ Cardinality(EarlierUniqueSearches(n)) >= search_clamp_limit
         /\ executor_log[n].name = "search_web"
         /\ ~SearchKeyRaises(executor_log[n].arguments)
         /\ create_search_cache_key(executor_log[n].arguments)
                \notin EarlierUniqueSearches(n)) =>
            ~BackendSearch(n)

\* the warning frames of the stream that carry the code TOOL_CLAMP
ClampWarnings ==
    {i \in DOMAIN events : events[i].type = "warning" /\ events[i].code = "TOOL_CLAMP"}

GenerationPayloads == {i \in DOMAIN upstream_log : upstream_log[i].phase = "generation"}

\* C13: in chat.py and router.py, for a model of provider xai with the
\* client's tool_choice naming an offered tool and response_format=json,
\* every generation-turn payload has tool_choice "auto" and
\* parallel_tool_calls false, and no payload of the request holds a
\* response_format.
XaiForcedChoiceDegrades ==
    (/\ req.impl \in {"chat", "router"}
     /\ get_provider_id(req.model) = XAI
     /\ req.tool_choice \in req.tool_names
     /\ req.response_format = "json") =>
        /\ \A i \in GenerationPayloads :
              /\ upstream_log[i].tool_choice = "auto"
              /\ upstream_log[i].parallel_tool_calls = "false"
        /\ \A i \in DOMAIN upstream_log : upstream_log[i].response_format = ""

\* the value the normalization rule gives the client's tool_choice
NormalizedToolChoice(r) ==
    IF r.tool_choice \in {"auto", "none", "required"} THEN r.tool_choice
    ELSE IF r.tool_choice \in r.tool_names THEN "function:" \o r.tool_choice
    ELSE "auto"

\* C14: in chat.py and router.py the client's tool_choice is normalized:
\* auto, none and required go upstream as given, the name of an offered
\* tool as the function object of that name, anything else as "auto"
\* (stated for providers other than xai and prompts that do not make the
\* first turn force a search).
ToolChoiceNormalized ==
    (/\ req.impl \in {"chat", "router"}
     /\ get_provider_id(req.model) # XAI
     /\ ~ImpliesNeedsTools(req)) =>
        \A i \in GenerationPayloads :
            upstream_log[i].tool_choice = NormalizedToolChoice(req)

\* the model id up to its first '/' or ':', whichever comes first
PrefixOf(model_id) ==
    LET stops == {k \in 1..Len(model_id) : model_id[k] \in {"/", ":"}}
        first == IF stops = {} THEN Len(model_id) + 1
                 ELSE CHOOSE k \in stops : \A j \in stops : k <= j
    IN  SubSeq(model_id, 1, first - 1)

NotDash(c) == c # "-"

NoKeyWarningThenDone ==
    (~req.api_key /\ pc = "terminal") =>
        /\ [i \in DOMAIN events |-> events[i].type] = <<"warning", "done">>
        /\ contacted = {}
        /\ upstream_log = <<>>
        /\ executor_log = <<>>

\* C18: a request that hit max_tool_calls (N) has, before its done frame,
\* a warning frame with code TOOL_CLAMP and the message "Reached maximum
\* tool call iterations (N)", and a content frame before or after that
\* warning.
IterationCapWarning ==
    (/\ Finished
     /\ iteration >= req.max_tool_calls
     /\ FramesOf("done") # {}) =>
        \E w \in FramesOf("warning") :
            /\ events[w].code = "TOOL_CLAMP"
            /\ events[w].content = IterationWarning(req.max_tool_calls)
            /\ \A d \in FramesOf("done") : w < d
            /\ \E c \in FramesOf("content") : \A d \in FramesOf("done") : c < d

IsContentFrame(e) == e.type = "content"

\* the texts of the content frames of the stream, in order
ContentTexts ==
    LET frames == SelectSeq(events, IsContentFrame)
    IN  [i \in DOMAIN frames |-> frames[i].content]

RECURSIVE UpstreamDeltas(_)
\* the content deltas the gateway hands on for these body lines, in order:
\* the text of every chunk with a non-empty content delta and, as the
\* gateway passes it on as text (openrouter.py 142-146), the raw data of a
\* line that is no chunk
UpstreamDeltas(lines) ==
    IF lines = <<>> THEN <<>>
    ELSE (IF Head(lines).kind = "malformed"
             \/ (Head(lines).kind = "delta" /\ Head(lines).text # "")
          THEN <<Head(lines).text>> ELSE <<>>) \o UpstreamDeltas(Tail(lines))

\* C19: on the path without tools of chat.py the content frames are exactly
\* the upstream content deltas, one frame per non-empty delta with the same
\* text in the same order, no other frame is written while the body is
\* read, and when the body ends without failure one done frame follows.
PlainContentIsUpstream ==
    (req.impl = "chat" /\ req.api_key /\ req.tools = "none") =>
        /\ ContentTexts = UpstreamDeltas(received)
        /\ \A i \in DOMAIN events : events[i].type \in {"content", "done", "error"}
        /\ (pc = "terminal" /\ FramesOf("error") = {}) =>
              /\ Len(events) = Len(ContentTexts) + 1
              /\ events[Len(events)].type = "done"

\* the body held "Hel", a chunk with an empty delta and "lo", then ended
PlainHelLoDone ==
    /\ req.impl = "chat" /\ req.tools = "none"
    /\ received = <<[kind |-> "delta", text |-> "Hel"], [kind |-> "delta", text |-> ""],
                    [kind |-> "delta", text |-> "lo"]>>
    /\ pc = "terminal"
    /\ ContentTexts = <<"Hel", "lo">>
    /\ events[Len(events)].type = "done"

ClientClosedOnEveryExit ==
    [][/\ pc' \in {"terminal", "aborted"} =>
            client' = (IF upstream_log' # <<>> THEN "closed" ELSE "none")
       /\ (pc = "aborted" \/ pc' = "aborted") => events' = events]_vars

\* the client disconnected while a tool was executing, after frames were
\* written, and the upstream client was closed
AbortedWhileExecuting ==
    /\ pc = "aborted"
    /\ client = "closed"
    /\ executor_log # <<>>
    /\ executor_log[Len(executor_log)].did = "pending"
    /\ events # <<>>

\* the call whose arguments the executor is working on, and the hint keys
EnrichKeys == {"time_hint", "after", "before"}

ExecutingCall == IF pc = "exec_wait" THEN completed_call ELSE Head(pending_calls)

\* C22: while the executor works on a call, the arguments it was handed are
\* the model's arguments with, for a search_web call whose arguments are an
\* object, each of time_hint, after, before added exactly when the model's
\* object lacks the key and the time-constraint parser has a value for it
\* from system+prompt ("last 7 days": time_hint "week", after = today - 7);
\* every key of the model keeps the model's value, and the arguments of
\* another tool are the model's.
EnrichmentOnlyFillsGaps ==
    pc \in {"exec_wait", "legacy_exec_wait"} =>
        LET given  == ParseToolArguments(ExecutingCall.arguments)
            passed == executor_log[Len(executor_log)].arguments
            found  == parse_time_constraints(req.prompt.text, DefaultNow)
            value  == [k \in EnrichKeys |->
                          IF ~found.some \/ k = "before" THEN <<>>
                          ELSE IF k = "time_hint" THEN HintChars(found.time_hint)
                          ELSE DateChars(found.after)]
        IN  IF ExecutingCall.name = "search_web" /\ given.is_dict
            THEN /\ passed.is_dict
                 /\ DOMAIN passed.d = DOMAIN given.d \cup
                        {k \in EnrichKeys : value[k] # <<>>}
                 /\ \A k \in DOMAIN given.d : passed.d[k] = given.d[k]
                 /\ \A k \in DOMAIN passed.d \ DOMAIN given.d : passed.d[k] = value[k]
            ELSE passed = given

\* the hint the claimed thresholds give a range of so many days
RangeHint(days) ==
    IF days <= 1 THEN "day"
    ELSE IF days <= 7 THEN "week"
    ELSE IF days <= 30 THEN "month"
    ELSE "year"

\* the days the claim counts for one unit
DaysPerUnit(unit) ==
    CASE unit \in {"day", "days"}     -> 1
      [] unit \in {"week", "weeks"}   -> 7
      [] unit \in {"month", "months"} -> 30
      [] OTHER                        -> 365

\* C23: whatever parse_time_constraints returns, its time_hint is the one
\* the number of days between `after` and today gives (at most 1 day, at
\* most 7 week, at most 30 month, more year), for the pattern
\* (last|past|in the last) N unit with N in 0..999, where `after` lies
\* N * 1, 7, 30 or 365 days back, and for today, yesterday, this/last
\* week and this/last month.
HintFollowsActualRange ==
    (pc = "parsed" /\ hint.some) =>
        /\ hint.time_hint = RangeHint(hint.after)
        /\ req.prompt.text.span = "last_n" =>
               hint.after = req.prompt.text.n * DaysPerUnit(req.prompt.text.unit)

\* the builders of the turn that hold a complete call
CompleteBuilders == {i \in DOMAIN tool_builders : BuilderComplete(tool_builders[i])}

\* C24: in the streaming loops of chat.py and router.py the stream of a
\* generation turn is read only while no builder is complete; once a delta
\* completes one, reading stops, so that builder is the only complete one,
\* the call handed on is that builder's name and arguments, the tool_calls
\* frame written for it lists that one call and is followed by no
\* reasoning or content frame, and the assistant message appended holds
\* that one call.
StopsAtFirstCompleteCall ==
    UsesStreamingLoop =>
        /\ pc = "gen_stream" => CompleteBuilders = {}
        /\ pc \in {"tool_start", "exec_wait"} =>
               \E i \in DOMAIN tool_builders :
                   /\ CompleteBuilders = {i}
                   /\ completed_call.name = tool_builders[i].name
                   /\ completed_call.arguments = tool_builders[i].arguments
        /\ pc = "exec_wait" =>
               /\ messages[Len(messages)] = build_assistant_tool_message(<<completed_call>>)
               /\ \E c \in FramesOf("tool_calls") :
                      /\ events[c].calls = <<completed_call>>
                      /\ \A k \in DOMAIN events :
                             k > c => events[k].type \in {"tool_executing", "warning"}

\* a delta of index 0 left its builder incomplete, the next delta completed
\* the builder of index 1, and that call is being executed
SecondIndexCompletedFirst ==
    /\ pc = "exec_wait"
    /\ DOMAIN tool_builders = {0, 1}
    /\ CompleteBuilders = {1}
    /\ completed_call.name = "calculate"
    /\ executor_log[Len(executor_log)].name = "calculate"

\* the tool-call deltas of one index among the events read, in arrival order
RECURSIVE DeltasOf(_, _)
DeltasOf(evs, idx) ==
    IF evs = <<>> THEN <<>>
    ELSE LET rest == DeltasOf(SubSeq(evs, 1, Len(evs) - 1), idx)
             ev   == evs[Len(evs)]
         IN  IF ev.type = "tool_call_delta" /\ ev.index = idx
             THEN Append(rest, ev) ELSE rest

RECURSIVE ConcatArguments(_)
ConcatArguments(ds) ==
    IF ds = <<>> THEN <<>> ELSE Head(ds).arguments \o ConcatArguments(Tail(ds))

RECURSIVE FirstId(_)
FirstId(ds) ==
    IF ds = <<>> THEN ""
    ELSE IF Head(ds).id # "" THEN Head(ds).id ELSE FirstId(Tail(ds))

RECURSIVE LatestName(_)
LatestName(ds) ==
    IF ds = <<>> THEN ""
    ELSE IF ds[Len(ds)].name # "" THEN ds[Len(ds)].name
    ELSE LatestName(SubSeq(ds, 1, Len(ds) - 1))

\* C25: while a generation turn of chat.py's or router.py's streaming loop
\* reads its stream, there is one builder for every index a tool-call
\* delta arrived for and no other; its arguments are the concatenation, in
\* arrival order, of the argument chunks of the deltas of that index
\* alone, its id the first non-empty id and its name the latest non-empty
\* name among them.
BuildersAggregatePerIndex ==
    pc \in {"gen_stream", "tool_start"} =>
        /\ DOMAIN tool_builders =
               {received[k].index : k \in {j \in DOMAIN received :
                                              received[j].type = "tool_call_delta"}}
        /\ \A idx \in DOMAIN tool_builders :
               LET ds == DeltasOf(received, idx)
               IN  /\ tool_builders[idx].arguments = ConcatArguments(ds)
                   /\ tool_builders[idx].id = FirstId(ds)
                   /\ tool_builders[idx].name = LatestName(ds)

\* deltas of two indices arrived interleaved, and the second delta of
\* index 0 completed its call under the id and name of the first
InterleavedIndicesAggregated ==
    /\ pc = "tool_start"
    /\ Len(received) = 3
    /\ received[1].index = 0 /\ received[2].index = 1 /\ received[3].index = 0
    /\ received[3].id = "c9"
    /\ tool_builders[0] = [id |-> "c1", name |-> "search_web", arguments |-> <<"{", "qa", "}">>]
    /\ tool_builders[1].arguments = <<"qb">>

\* C26: in a turn of the streaming loops a call appears in a tool_calls
\* frame, and a tool_executing frame is written for it, only if its name
\* is known and its arguments are a JSON document; and when the stream of
\* the turn ended with no builder complete, no tool was executed, no
\* tool frame was written, no assistant tool-call message or tool message
\* was appended, and the request ended as a turn without a tool call.
OnlyCompleteCallsRun ==
    /\ \A f \in FramesOf("tool_calls") :
           \A k \in DOMAIN events[f].calls :
               /\ events[f].calls[k].name # ""
               /\ events[f].calls[k].arguments # <<>>
               /\ ParseJson(events[f].calls[k].arguments).ok
    /\ \A x \in FramesOf("tool_executing") :
           \E f \in FramesOf("tool_calls") :
               /\ f < x
               /\ \E k \in DOMAIN events[f].calls :
                      /\ events[f].calls[k].id = events[x].id
                      /\ events[f].calls[k].name = events[x].name
    /\ (pc \in {"after_loop", "terminal"} /\ CompleteBuilders = {}
        /\ FramesOf("error") = {}) =>
           /\ executor_log = <<>>
           /\ FramesOf("tool_calls") \cup FramesOf("tool_executing")
                  \cup FramesOf("tool_result") = {}
           /\ \A m \in DOMAIN messages : messages[m].role \in {"system", "user"}
           /\ Len(upstream_log) = 1

\* the stream ended while the only builder held a name and half a
\* document, and the request finished without a tool
EndedWithIncompleteBuilder ==
    /\ Finished
    /\ DOMAIN tool_builders = {0}
    /\ tool_builders[0].name = "search_web"
    /\ tool_builders[0].arguments = <<"{", "qa">>
    /\ executor_log = <<>>
    /\ FramesOf("done") # {}

\* the frames the reasoning and content events read so far give, in order
RECURSIVE ForwardedFrames(_)
ForwardedFrames(evs) ==
    IF evs = <<>> THEN <<>>
    ELSE LET rest == ForwardedFrames(SubSeq(evs, 1, Len(evs) - 1))
             ev   == evs[Len(evs)]
         IN  IF ev.type = "reasoning"
             THEN Append(rest, stream_reasoning_event(ev.content))
             ELSE IF ev.type = "content_delta"
             THEN Append(rest, stream_content_event(ev.content))
             ELSE rest

\* C27: whenever a generation turn of chat.py's or router.py's streaming
\* loop is about to read its next upstream event, every reasoning and
\* content event read so far has its frame written downstream, in order:
\* none is held back until a later event or the end of the turn.
DeltasForwardedAtOnce ==
    pc = "gen_stream" => events = ForwardedFrames(received)

\* no frame of a tool call, and no error, was written
NoToolActivity ==
    FramesOf("tool_calls") \cup FramesOf("tool_executing")
        \cup FramesOf("tool_result") \cup FramesOf("error") = {}

\* the content frames that carry the fallback text
FallbackFrames == {c \in FramesOf("content") : events[c].content = NO_CONTENT}

\* C28: in chat.py and router.py a stream that passed the API-key check and
\* finished with done, without tool activity and without an error, has a
\* reasoning or content frame before its done frame; in the streaming
\* loops, when the generation turn forwarded no content the stream holds
\* exactly one content frame "No additional content generated.", and when
\* it forwarded content it holds none.
AlwaysSomeContent ==
    (/\ Finished
     /\ req.impl \in {"chat", "router"}
     /\ UsesStreamingLoop \/ ~HasTools
     /\ req.api_key
     /\ FramesOf("done") # {}
     /\ NoToolActivity) =>
        /\ \E c \in FramesOf("content") \cup FramesOf("reasoning") :
               \A d \in FramesOf("done") : c < d
        /\ HasTools =>
               Cardinality(FallbackFrames) =
                   (IF FramesOf("content") \ FallbackFrames = {} THEN 1 ELSE 0)

\* requests of the finalization phase: the non-streaming attempts and the
\* streaming fallbacks
FinalizationAttempts ==
    {i \in DOMAIN upstream_log :
        upstream_log[i].phase = "finalization" /\ upstream_log[i].kind = "completion"}

FinalizationFallbacks ==
    {i \in DOMAIN upstream_log :
        upstream_log[i].phase = "finalization" /\ upstream_log[i].kind # "completion"}

\* C29: in chat.py and router.py the finalization is attempted with at most
\* one non-streaming completion, which carries the tools and tool_choice
\* "none"; a streaming fallback is requested only after that attempt and
\* at most once; once the attempt has returned, either its text is in
\* exactly one content frame and no fallback was requested, or no frame
\* carries it and the fallback was requested; and while the fallback
\* streams, no error frame has been written, also when the attempt raised.
FinalizationAttemptThenFallback ==
    req.impl \in {"chat", "router"} =>
        LET answers == {c \in FramesOf("content") : events[c].content = "answer"}
        IN  /\ Cardinality(FinalizationAttempts) <= 1
            /\ \A a \in FinalizationAttempts :
                   /\ upstream_log[a].tool_choice = "none"
                   /\ upstream_log[a].has_tools
            /\ Cardinality(FinalizationFallbacks) <= 1
            /\ \A f \in FinalizationFallbacks :
                   /\ \E a \in FinalizationAttempts : a < f
                   /\ ~upstream_log[f].has_tools
            /\ (FinalizationAttempts # {}
                /\ pc \in {"fallback_stream", "legacy_fallback_stream",
                           "after_loop", "terminal"}) =>
                   \/ Cardinality(answers) = 1 /\ FinalizationFallbacks = {}
                   \/ answers = {} /\ Cardinality(FinalizationFallbacks) = 1
            /\ pc \in {"fallback_stream", "legacy_fallback_stream"} =>
                   FramesOf("error") = {}

\* the attempt raised (chat.py wrote its debug frame), the fallback was
\* requested and streamed a text, and the stream finished without an error
FallbackAfterFailedAttempt ==
    /\ Finished
    /\ req.impl = "chat"
    /\ FramesOf("debug") # {}
    /\ Cardinality(FinalizationFallbacks) = 1
    /\ \E c \in FramesOf("content") : events[c].content = "fallback"
    /\ FramesOf("error") = {}
    /\ FramesOf("done") # {}

\* positions of the assistant messages that carry tool calls
CallingMessages ==
    {i \in DOMAIN messages :
        messages[i].role = "assistant" /\ messages[i].tool_calls # <<>>}

\* the frames of one type, in the order they were written
RECURSIVE FramesInOrder(_, _)
FramesInOrder(evs, type) ==
    IF evs = <<>> THEN <<>>
    ELSE LET rest == FramesInOrder(SubSeq(evs, 1, Len(evs) - 1), type)
         IN  IF evs[Len(evs)].type = type THEN Append(rest, evs[Len(evs)]) ELSE rest

\* C30: in the non-streaming loops of chat.py and main.py the calls of an
\* upstream message are executed in the order of the message: the k-th
\* tool_executing frame and the k-th executor invocation are those of the
\* k-th call, every tool_executing frame that is not the last frame is
\* followed at once by the tool_result frame of the same id, the k-th
\* message after the assistant message is the tool message of the k-th
\* call, and the nudge is appended and the finalization requested only when
\* every call of the message has its tool_result frame and tool message.
LegacyCallsRunInOrder ==
    (req.impl \in {"chat", "main"} /\ ~UsesStreamingLoop /\ HasTools) =>
        /\ Cardinality(CallingMessages) <= 1
        /\ CallingMessages = {} => FramesOf("tool_executing") = {}
        /\ \A a \in CallingMessages :
               LET calls   == messages[a].tool_calls
                   started == FramesInOrder(events, "tool_executing")
                   results == FramesInOrder(events, "tool_result")
                   told    == {i \in DOMAIN messages : messages[i].role = "tool"}
               IN  /\ Len(started) <= Len(calls)
                   /\ \A k \in DOMAIN started :
                          /\ started[k].id = IdOrUnknown(calls[k].id)
                          /\ started[k].name = calls[k].name
                   /\ Len(executor_log) = Len(started)
                   /\ \A k \in DOMAIN executor_log :
                          executor_log[k].name = calls[k].name
                   /\ \A x \in FramesOf("tool_executing") :
                          x < Len(events) =>
                              /\ events[x + 1].type = "tool_result"
                              /\ events[x + 1].id = events[x].id
                   /\ told = {a + k : k \in 1..Cardinality(told)}
                   /\ \A k \in 1..Cardinality(told) :
                          messages[a + k].tool_call_id = IdOrUnknown(calls[k].id)
                   /\ (FinalizationAttempts # {}
                       \/ \E i \in DOMAIN messages : messages[i] = Message("user", NUDGE)) =>
                          /\ Len(results) = Len(calls)
                          /\ Cardinality(told) = Len(calls)
                          /\ messages[a + Len(calls) + 1] = Message("user", NUDGE)
                          /\ Len(messages) = a + Len(calls) + 1
                          /\ FinalizationAttempts # {}

\* the assistant messages without calls that a silent retry appended
RetriedMessages ==
    {i \in DOMAIN messages :
        messages[i].role = "assistant" /\ messages[i].tool_calls = <<>>}

\* C31: in the tool loops of chat.py and main.py a turn without tool calls
\* is retried silently at most once per request, and only in a request
\* whose tool choice was forced on the first turn; every other turn
\* without tool calls ends the loop, so the streaming loop never retries.
SilentRetryOnceWhenForced ==
    (req.impl \in {"chat", "main"} /\ HasTools) =>
        /\ Cardinality(RetriedMessages) <= 1
        /\ RetriedMessages # {} =>
               /\ ~UsesStreamingLoop
               /\ should_force_tools_first_turn

\* C32: a request runs at most max_tool_calls iterations of its tool loop
\* and sends at most that many generation-turn requests upstream; and when
\* the client stays connected and every upstream call and tool call
\* returns or raises, the generator reaches the end of its stream.
BoundedTurnsThenEnd ==
    /\ [](/\ iteration <= req.max_tool_calls
          /\ Cardinality(GenerationPayloads) <= req.max_tool_calls
          /\ HasTools /\ pc \notin {"init", "loop_head"} =>
                 Cardinality(GenerationPayloads) = iteration)
    /\ <>(pc = "terminal")

\* a request used up the largest limit: as many generation requests as
\* max_tool_calls, and the stream ended
LimitUsedUp ==
    /\ Finished
    /\ req.max_tool_calls = MaxLimit
    /\ iteration = MaxLimit
    /\ Cardinality(GenerationPayloads) = MaxLimit

\* C33: for every line stream_events reads: a line that does not begin
\* with "data: " yields nothing; the line "data: [DONE]" yields one done
\* event and ends the parsing, so a done event is always the last event
\* yielded; a data line whose text is no JSON chunk yields that text as
\* one content_delta and the parsing goes on with the next line.
ParserYieldsPerLine ==
    [][(pc = "lines" /\ received' # received) =>
          LET line == received'[Len(received')]
          IN  /\ line.prefix # "data: " => parsed' = parsed /\ pc' = "lines"
              /\ (line.prefix = "data: " /\ line.raw = "[DONE]") =>
                     /\ parsed' = Append(parsed, UpstreamEvent("done", ""))
                     /\ pc' = "lines_end"
              /\ (line.prefix = "data: " /\ line.kind \in {"malformed", "scalar"}) =>
                     /\ parsed' = Append(parsed, UpstreamEvent("content_delta", line.raw))
                     /\ pc' = "lines"
              /\ \A k \in DOMAIN parsed' :
                     parsed'[k].type = "done" => k = Len(parsed') /\ pc' = "lines_end"]_vars

\* a malformed chunk was read, then a chunk with content, then [DONE]
ParsedPastMalformedChunk ==
    /\ pc = "lines_end"
    /\ Len(received) = 3
    /\ received[1].kind = "malformed"
    /\ parsed = <<UpstreamEvent("content_delta", "{oops"),
                 UpstreamEvent("content_delta", "Hel"),
                 UpstreamEvent("done", "")>>

CountIsCacheSize ==
    /\ unique_search_count = Cardinality(DOMAIN search_cache)
    /\ unique_search_count <= search_clamp_limit

\* C35: every frame written to the downstream stream carries a type, and
\* the type is one of reasoning, content, tool_calls, tool_executing,
\* tool_result, warning, error, debug, done; also when the tools parameter
\* is rejected.
EveryFrameHasKnownType ==
    \A i \in DOMAIN events :
        events[i].type \in {"reasoning", "content", "tool_calls", "tool_executing",
                            "tool_result", "warning", "error", "debug", "done"}

\* C36: a request handled by app/routers/chat.py with TOOL_LOOP_V2 runs
\* one iteration of its loop: it issues at most one generation-turn request,
\* and exactly one once a request with tools has entered the loop; it hands
\* at most one call to the executor and writes at most one tool_result;
\* unique_search_count is at most 1; when a call starts the search cache is
\* empty, so no call is answered from the cache (every tool_result comes
\* from an executor invocation) and none with the clamp error, and no
\* TOOL_CLAMP warning is written.
OneTurnInStreamingLoop ==
    (req.impl = "chat" /\ req.tool_loop_v2) =>
        /\ iteration <= 1
        /\ Cardinality(GenerationPayloads) <= 1
        /\ (HasTools /\ pc \notin {"init", "loop_head"} /\ iteration >= 1) =>
               Cardinality(GenerationPayloads) = 1
        /\ Len(executor_log) <= 1
        /\ Cardinality(FramesOf("tool_result")) <= Len(executor_log)
        /\ unique_search_count <= 1
        /\ Cardinality(DOMAIN search_cache) <= 1
        /\ pc = "tool_start" => (search_cache = EmptyMap /\ unique_search_count = 0)
        /\ \A i \in FramesOf("tool_result") : events[i].result # ClampError
        /\ ~ClampFired
        /\ ~clamp_warning_sent

\* a chat.py request of the streaming loop with max_tool_calls > 1 ended
\* after one search that was executed, cached and counted
StreamingLoopEndedAfterOneSearch ==
    /\ req.impl = "chat"
    /\ req.tool_loop_v2
    /\ req.max_tool_calls > 1
    /\ Finished
    /\ iteration = 1
    /\ unique_search_count = 1
    /\ Len(executor_log) = 1
    /\ Cardinality(GenerationPayloads) = 1

\* C37: the warning "Reached maximum tool call iterations (N)" is written
\* only when the loop ran out of iterations without a terminating turn: in
\* no stream does it follow a content frame, the answer of a turn that left
\* the loop.
IterationWarningOnlyWithoutAnswer ==
    \A w \in FramesOf("warning") :
        events[w].content = IterationWarning(req.max_tool_calls) =>
            \A c \in FramesOf("content") : w < c

\* C38: in the non-streaming loop of chat.py and main.py no answer of the
\* model is discarded: a step that takes a message with text and without
\* tool calls from upstream into the conversation writes that text as a
\* content frame.
NoAnswerDiscarded ==
    [][(/\ req.impl \in {"chat", "main"}
        /\ pc = "legacy_wait"
        /\ Len(messages') = Len(messages) + 1
        /\ messages'[Len(messages')].role = "assistant"
        /\ messages'[Len(messages')].tool_calls = <<>>
        /\ messages'[Len(messages')].content.text # "") =>
           /\ Len(events') > Len(events)
           /\ events'[Len(events')] =
                  stream_content_event(messages'[Len(messages')].content.text)]_vars

====
